---- MODULE Spec2Model ----
(***************************************************************************)
(* Model of the persistence layer of src/db.ts: the memoized open of the   *)
(* IndexedDB database with its upgrade callback, and the datastore         *)
(* operations addVocabularyItems, getVocabCount, clearDatabase and         *)
(* updateFrequencyLevels, run by cooperatively scheduled callers; and of   *)
(* its queries getPaginatedVocabulary, getVocabulary,                      *)
(* getAllVocabularyForLevelAndCategory and getExistingWords, answered      *)
(* from a catalog that nothing writes to.                                  *)
(*                                                                         *)
(* IndexedDB semantics the code relies on (it imports them from 'idb'):    *)
(*  - readwrite transactions whose scopes overlap run one after another    *)
(*    (which of the waiting transactions starts next is left open here);   *)
(*  - the requests of one transaction run in the order they were placed;   *)
(*  - a request that fails (ConstraintError of a unique index, a storage   *)
(*    fault) fires an error event whose default action aborts the          *)
(*    transaction; idb rejects the request's promise and does not call     *)
(*    preventDefault, so catching the rejection does not keep the          *)
(*    transaction alive;                                                   *)
(*  - an aborted transaction reverts every change it made, the key         *)
(*    generators included; an aborted versionchange transaction leaves     *)
(*    the database at its old version and fails the open;                  *)
(*  - clear() does not reset the key generator of a store;                 *)
(*  - an exception thrown in the async upgrade callback rejects a promise  *)
(*    nobody awaits: the versionchange transaction commits what was done.  *)
(***************************************************************************)
EXTENDS Integers, Sequences, FiniteSets, TLC

\* ------------------------------------------------------------------ bounds
MaxLen == 2        \* longest list handed to addVocabularyItems
MaxCalls == 2      \* operations one caller starts, one after another
MaxConcurrentCalls == 3   \* operations two interleaving callers start
MaxOpenCalls == 3  \* operations started around the open of the database
MaxLegacy == 2     \* records in the legacy 'vocabulary' store
MaxUpdates == 1    \* longest list handed to updateFrequencyLevels

\* ------------------------------------------------------------ constants
DB_VERSION == 5
WORDS_STORE_NAME == "words"
IDIOMS_STORE_NAME == "idioms"
OLD_VOCAB_STORE_NAME == "vocabulary"
PARTS_OF_SPEECH == {"Noun", "Verb", "Adjective", "Adverb"}

NULL == "null"          \* a string field that is null, undefined or empty
Procs == {"p1", "p2"}   \* the callers whose operations interleave

\* ------------------------------------------------------------- records
\* VocabDBItem.  id = 0 and frequencyLevel = 0 stand for an absent field.
Item(english, pos, type, japanese) ==
    [id |-> 0, english |-> english, japanese |-> japanese, pos |-> pos,
     example_en |-> "ex", example_jp |-> "rei", level |-> "Beginner",
     category |-> "Business", type |-> type, frequencyLevel |-> 0]

\* The records callers hand to addVocabularyItems.
Items ==
    { Item("run", "Verb", "word", "hashiru"),
      Item("run", "Noun", "word", "hashiru"),
      Item("run", "Verb", "word", "keiei"),      \* same key, other content
      Item("run", "Verb", "idiom", "keiei"),     \* an idiom carrying a pos
      Item("run", "Pronoun", "word", "hashiru") }  \* pos outside the enum

\* The records an older version of the program left in 'vocabulary'.
LegacyItems ==
    { Item("run", "Verb", "word", "hashiru"),
      Item("run", "Noun", "word", "hashiru"),
      Item("run", NULL, "idiom", "hashiru"),
      Item("run", "Verb", "idiom", "keiei"),
      Item("run", NULL, "word", "hashiru") }

SeqsUpTo(S, n) == UNION { [1..k -> S] : k \in 0..n }

\* ------------------------------------------------------- schema, indexes
Index(name, keyPath, unique) ==
    [name |-> name, keyPath |-> keyPath, unique |-> unique]

\* db.createObjectStore(WORDS_STORE_NAME) and its two createIndex calls
WordsIndexesWrongKeyPath ==
    { Index("english_pos", <<"english", "japanese">>, TRUE),
      Index("level_category", <<"level", "category">>, FALSE) }
WordsIndexesV4 ==
    { Index("english_pos", <<"english", "pos">>, TRUE),
      Index("level_category", <<"level", "category">>, FALSE) }

\* db.createObjectStore(IDIOMS_STORE_NAME) and its two createIndex calls
IdiomsIndexesV4 ==
    { Index("english", <<"english">>, TRUE),
      Index("level_category", <<"level", "category">>, FALSE) }

\* createIndex('frequencyLevel', 'frequencyLevel', { unique: false })
FrequencyIndex == Index("frequencyLevel", <<"frequencyLevel">>, FALSE)

\* The key an index holds for a record; a record with a null component has
\* no entry in the index.
KeyOf(r, keyPath) == [i \in DOMAIN keyPath |-> r[keyPath[i]]]
Indexed(r, keyPath) == \A i \in DOMAIN keyPath : r[keyPath[i]] # NULL

\* index.get(key): the records the index holds under key
IndexGet(recs, idx, key) ==
    { r \in recs : Indexed(r, idx.keyPath) /\ KeyOf(r, idx.keyPath) = key }

IndexNamed(idxs, name) == CHOOSE i \in idxs : i.name = name

\* A unique index refuses a record whose key it already holds.
ConstraintError(recs, idxs, r) ==
    \E i \in idxs :
        /\ i.unique
        /\ Indexed(r, i.keyPath)
        /\ IndexGet(recs, i, KeyOf(r, i.keyPath)) # {}

\* The persisted database: version 0 is "no database yet".
EmptyDb ==
    [version |-> 0, storeNames |-> {}, wordsIdx |-> {}, idiomsIdx |-> {},
     vocabulary |-> <<>>, words |-> {}, idioms |-> {},
     wordsKeyGen |-> 0, idiomsKeyGen |-> 0]

\* store.add(data) with keyPath 'id' and autoIncrement: the record gets the
\* next key of the store's generator.
AddWordUnderFreeId(d, data) ==
    [d EXCEPT !.words = @ \cup {[data EXCEPT !.id = Cardinality(d.words) + 1]},
              !.wordsKeyGen = @ + 1]
AddIdiomToWords(d, data) ==
    [d EXCEPT !.words = @ \cup {[data EXCEPT !.id = d.wordsKeyGen + 1]},
              !.wordsKeyGen = @ + 1]
AddWord(d, data) ==
    [d EXCEPT !.words = @ \cup {[data EXCEPT !.id = d.wordsKeyGen + 1]},
              !.wordsKeyGen = @ + 1]
AddIdiom(d, data) ==
    [d EXCEPT !.idioms = @ \cup {[data EXCEPT !.id = d.idiomsKeyGen + 1]},
              !.idiomsKeyGen = @ + 1]

\* --------------------------------------------------------------- upgrade
\* An upgrade in progress: the database as the versionchange transaction
\* sees it, the steps run so far, the stores and indexes created so far,
\* whether the transaction is alive and whether the callback has thrown.
Upgrading(d) ==
    [ok |-> TRUE, threw |-> FALSE, db |-> d, steps |-> <<>>, created |-> {}]

\* The callback writes nothing more: its transaction was aborted, or an
\* exception has ended the async function.
Halted(u) == ~u.ok \/ u.threw

\* A store (index = NULL) or an index of a store, by name.
Object(storeName, indexName) == [store |-> storeName, index |-> indexName]

\* db.objectStoreNames and each store's indexNames
SchemaObjects(d) ==
    { Object(s, NULL) : s \in d.storeNames }
        \cup { Object(WORDS_STORE_NAME, i.name) : i \in d.wordsIdx }
        \cup { Object(IDIOMS_STORE_NAME, i.name) : i \in d.idiomsIdx }

\* db.createObjectStore(name, { keyPath: 'id', autoIncrement: true }) and the
\* createIndex calls on the new store.  IndexedDB throws ConstraintError when
\* a store of that name exists.
CreateObjectStore(u, name, idxs) ==
    IF Halted(u) THEN u
    ELSE IF name \in u.db.storeNames THEN [u EXCEPT !.threw = TRUE]
    ELSE [u EXCEPT !.db.storeNames = @ \cup {name},
                   !.db.wordsIdx = IF name = WORDS_STORE_NAME THEN idxs ELSE @,
                   !.db.idiomsIdx = IF name = IDIOMS_STORE_NAME THEN idxs ELSE @,
                   !.created = @ \cup {Object(name, NULL)}
                                 \cup {Object(name, i.name) : i \in idxs}]

\* store.createIndex(name, keyPath, { unique }) on an existing store.
\* IndexedDB throws ConstraintError when the store has an index of that name.
CreateIndex(u, storeName, idx) ==
    LET idxs == IF storeName = WORDS_STORE_NAME THEN u.db.wordsIdx
                ELSE u.db.idiomsIdx
    IN  IF Halted(u) THEN u
        ELSE IF \E i \in idxs : i.name = idx.name THEN [u EXCEPT !.threw = TRUE]
        ELSE [u EXCEPT !.db.wordsIdx =
                           IF storeName = WORDS_STORE_NAME THEN @ \cup {idx}
                           ELSE @,
                       !.db.idiomsIdx =
                           IF storeName = IDIOMS_STORE_NAME THEN @ \cup {idx}
                           ELSE @,
                       !.created = @ \cup {Object(storeName, idx.name)}]

\* if (!db.objectStoreNames.contains(WORDS_STORE_NAME)) { createObjectStore.. }
CreateWordsStoreUnguarded(u) ==
    CreateObjectStore(u, WORDS_STORE_NAME, WordsIndexesV4)
CreateWordsStore(u) ==
    IF WORDS_STORE_NAME \in u.db.storeNames THEN u
    ELSE CreateObjectStore(u, WORDS_STORE_NAME, WordsIndexesV4)

\* if (!db.objectStoreNames.contains(IDIOMS_STORE_NAME)) { createObjectStore.. }
CreateIdiomsStore(u) ==
    IF IDIOMS_STORE_NAME \in u.db.storeNames THEN u
    ELSE CreateObjectStore(u, IDIOMS_STORE_NAME, IdiomsIndexesV4)

\* The cursor loop over the legacy store, from position i.  The rejection of
\* a failed add is caught and logged, but the failed request has aborted the
\* versionchange transaction: u.ok becomes FALSE and nothing more is written.
RECURSIVE MigrateFrom(_, _)
MigrateFrom(u, i) ==
    IF Halted(u) \/ i > Len(u.db.vocabulary) THEN u
    ELSE LET item == u.db.vocabulary[i]
             data == [item EXCEPT !.id = 0]
         IN  IF item.type = "word" /\ item.pos \in PARTS_OF_SPEECH
             THEN IF ConstraintError(u.db.words, u.db.wordsIdx, data)
                  THEN [u EXCEPT !.ok = FALSE]
                  ELSE MigrateFrom([u EXCEPT !.db = AddWord(u.db, data)], i + 1)
             ELSE IF item.type = "idiom"
             THEN IF ConstraintError(u.db.idioms, u.db.idiomsIdx, data)
                  THEN [u EXCEPT !.ok = FALSE]
                  ELSE MigrateFrom([u EXCEPT !.db = AddIdiom(u.db, data)], i + 1)
             ELSE MigrateFrom(u, i + 1)

\* db.deleteObjectStore(OLD_VOCAB_STORE_NAME), reached when the loop ends
DeleteOldStore(u) ==
    IF Halted(u) THEN u
    ELSE [u EXCEPT !.db.storeNames = @ \ {OLD_VOCAB_STORE_NAME},
                   !.db.vocabulary = <<>>]

\* if (oldVersion < 4) { ... }
UpgradeV4(u) ==
    LET created == CreateIdiomsStore(
                       CreateWordsStore([u EXCEPT !.steps = Append(@, 4)]))
    IN  IF ~Halted(created) /\ OLD_VOCAB_STORE_NAME \in created.db.storeNames
        THEN DeleteOldStore(MigrateFrom(created, 1))
        ELSE created

\* const store = tx.objectStore(name);
\* if (!store.indexNames.contains('frequencyLevel')) { store.createIndex.. }
\* tx.objectStore throws NotFoundError when the database has no such store.
AddFrequencyIndex(u, storeName) ==
    IF Halted(u) THEN u
    ELSE IF storeName \notin u.db.storeNames THEN [u EXCEPT !.threw = TRUE]
    ELSE IF Object(storeName, FrequencyIndex.name) \in SchemaObjects(u.db)
    THEN u
    ELSE CreateIndex(u, storeName, FrequencyIndex)

\* if (oldVersion < 5) { ... }
UpgradeV5(u) ==
    IF Halted(u) THEN u
    ELSE AddFrequencyIndex(
             AddFrequencyIndex([u EXCEPT !.steps = Append(@, 5)],
                               WORDS_STORE_NAME),
             IDIOMS_STORE_NAME)

\* The upgrade callback of openDB(DB_NAME, DB_VERSION, { upgrade }) on the
\* persisted database d.  A transaction that was aborted leaves d as it was.
\* An exception ends the async callback early; its rejection is not observed
\* by the open, and the transaction commits what was done before it.
Upgrade(d) ==
    LET u0 == Upgrading(d)
        u4 == IF d.version < 4 THEN UpgradeV4(u0) ELSE u0
        u5 == IF d.version < 5 THEN UpgradeV5(u4) ELSE u4
    IN  IF u5.ok THEN [u5 EXCEPT !.db.version = DB_VERSION]
        ELSE [u5 EXCEPT !.db = d]

\* ------------------------------------------------------------------ state
VARIABLES
    store,       \* the persisted database
    dbPromise,   \* the module's memo: "null", "pending", "resolved", "rejected"
    openCount,   \* calls of openDB made by this process
    upgradeLog,  \* one entry per settled open: the database before and
                 \* after, the upgrade steps run, the outcome
    openFault,   \* the environment makes the open fail while this is TRUE
    running,     \* the callers whose readwrite transaction has started
    pc,          \* each caller's position
    frame,       \* each caller's operation, arguments and locals
    result,      \* each caller's outcome, with the stores before and after
    calls,       \* operations started so far
    query        \* the last query answered: its arguments and its result

vars == <<store, dbPromise, openCount, upgradeLog, openFault, running, pc,
          frame, result, calls, query>>

Other(p) == CHOOSE q \in Procs : q # p

Count(d) == Cardinality(d.words) + Cardinality(d.idioms)

\* Kept when a caller repeats its previous, completed addVocabularyItems call
\* with the identical list: what that call returned and the stores before it.
NoPrev == [repeat |-> FALSE, ret |-> 0, before |-> EmptyDb]

IdleFrame ==
    [op |-> "none", items |-> <<>>, updates |-> <<>>, idx |-> 1,
     addedCount |-> 0, wordCount |-> 0, promise |-> 0, concurrent |-> FALSE,
     faultAtCall |-> FALSE, prev |-> NoPrev]

NoResult ==
    [ret |-> 0, cause |-> "none", before |-> EmptyDb, after |-> EmptyDb,
     seen |-> {}]

NoQuery == [op |-> "none"]

InFlight(p) == pc[p] \notin {"idle", "done", "failed"}

\* The database as committed: what a transaction that starts now would see
\* once the running readwrite transaction, if any, were rolled back.
Committed ==
    IF running = {} THEN store
    ELSE result[CHOOSE q \in running : TRUE].before

\* ------------------------------------------------------------------- getDb
\* if (!dbPromise) { dbPromise = openDB(...) }
GetDbOpensNoMemo == TRUE
GetDbOpens == dbPromise = "null"

\* A caller starts operation o: the synchronous part of the async function
\* up to `await getDb()`.
Invoke(p, o, items, updates, maxCalls) ==
    /\ ~InFlight(p)
    /\ calls < maxCalls
    /\ calls' = calls + 1
    /\ IF GetDbOpens
       THEN /\ dbPromise' = "pending"
            /\ openCount' = openCount + 1
       ELSE UNCHANGED <<dbPromise, openCount>>
    /\ pc' = [pc EXCEPT ![p] = "awaitDb"]
    /\ frame' = [q \in Procs |->
                   IF q = p
                   THEN [IdleFrame EXCEPT !.op = o, !.items = items,
                                          !.updates = updates,
                                          !.promise = openCount',
                                          !.concurrent = InFlight(Other(p)),
                                          !.faultAtCall = openFault,
                                          !.prev =
                                            IF /\ o = "add"
                                               /\ frame[p].op = "add"
                                               /\ pc[p] = "done"
                                               /\ frame[p].items = items
                                            THEN [repeat |-> TRUE,
                                                  ret |-> result[p].ret,
                                                  before |-> result[p].before]
                                            ELSE NoPrev]
                   ELSE [frame[q] EXCEPT !.concurrent = @ \/ InFlight(q)]]
    /\ result' = [result EXCEPT ![p] = NoResult]
    /\ UNCHANGED <<store, upgradeLog, openFault, running>>

\* The operation is started by a caller that keeps no record of a query.
Call(p, o, items, updates, maxCalls) ==
    /\ Invoke(p, o, items, updates, maxCalls)
    /\ UNCHANGED query

\* openDB settles: the upgrade callback runs when the persisted version is
\* behind, inside one versionchange transaction.
OpenSettles ==
    /\ dbPromise = "pending"
    /\ LET u == IF store.version < DB_VERSION THEN Upgrade(store)
                ELSE Upgrading(store)
           ok == u.ok /\ ~openFault
       IN  /\ store' = IF ok THEN u.db ELSE store
           /\ dbPromise' = IF ok THEN "resolved" ELSE "rejected"
           /\ upgradeLog' = Append(upgradeLog,
                                   [from |-> store, to |-> store',
                                    steps |-> u.steps, ok |-> ok,
                                    fault |-> openFault, threw |-> u.threw,
                                    created |-> u.created])
    /\ UNCHANGED <<openCount, openFault, running, pc, frame, result, calls>>
    /\ UNCHANGED query

\* The storage fault that made the open fail goes away.
FaultClears ==
    /\ openFault
    /\ openFault' = FALSE
    /\ UNCHANGED <<store, dbPromise, openCount, upgradeLog, running, pc, frame,
                   result, calls>>
    /\ UNCHANGED query

\* ------------------------------------------------------ addVocabularyItems
\* if (!item || typeof item.english !== 'string' || !item.english || !item.type)
BaseOk(item) == item.english # NULL /\ item.type # NULL

\* if (!item.japanese || !item.example_en || !item.example_jp || !item.level
\*     || !item.category)
CoreOkWithoutJapanese(item) ==
    /\ item.example_en # NULL
    /\ item.example_jp # NULL
    /\ item.level # NULL
    /\ item.category # NULL
CoreOk(item) ==
    /\ item.japanese # NULL
    /\ item.example_en # NULL
    /\ item.example_jp # NULL
    /\ item.level # NULL
    /\ item.category # NULL

\* The entries for which the loop body reaches an index probe.
Probed(item) ==
    /\ BaseOk(item)
    /\ CoreOk(item)
    /\ \/ item.type = "word" /\ item.pos \in PARTS_OF_SPEECH
       \/ item.type = "idiom"

\* The loop runs without suspending over the entries it skips: the position
\* of the next entry that places a request, or Len(items) + 1.
RECURSIVE NextIdx(_, _)
NextIdx(items, i) ==
    IF i > Len(items) \/ Probed(items[i]) THEN i ELSE NextIdx(items, i + 1)

\* const { id, ...data } = item;  and for an idiom  {...data, pos: null}
DataOfPosDropped(item) == [item EXCEPT !.id = 0, !.pos = NULL]
DataOf(item) ==
    IF item.type = "word" THEN [item EXCEPT !.id = 0]
    ELSE [item EXCEPT !.id = 0, !.pos = NULL]

\* wordsIndex.get([item.english, item.pos]) / idiomsIndex.get(item.english)
ExistingByEnglish(d, item) ==
    IF item.type = "word" THEN {r \in d.words : r.english = item.english}
    ELSE {r \in d.idioms : r.english = item.english}
Existing(d, item) ==
    IF item.type = "word"
    THEN IndexGet(d.words, IndexNamed(d.wordsIdx, "english_pos"),
                  <<item.english, item.pos>>)
    ELSE IndexGet(d.idioms, IndexNamed(d.idiomsIdx, "english"),
                  <<item.english>>)

\* A readwrite transaction over both stores starts when no other one runs.
CanStartUnserialized(p) == TRUE
CanStart(p) == running = {}

\* The state an aborted transaction of p leaves: its writes are reverted.
AbortKeepsWrites(p) == store
Aborted(p) == IF p \in running THEN result[p].before ELSE store

\* Every caller counting records learns of a newly committed state.
Observe(res, d) ==
    [q \in Procs |->
        IF frame[q].op = "count" /\ InFlight(q)
        THEN [res[q] EXCEPT !.seen = @ \cup {Count(d)}]
        ELSE res[q]]

\* The transaction of p starts with its first request.
Started(p) ==
    IF p \in running THEN result
    ELSE [result EXCEPT ![p].before = store]

\* `await getDb()` resumes; each operation runs on to its first request.
AwaitDb(p) ==
    /\ pc[p] = "awaitDb"
    /\ dbPromise \in {"resolved", "rejected"}
    /\ IF dbPromise = "rejected"
       THEN /\ pc' = [pc EXCEPT ![p] = "failed"]
            /\ result' = [result EXCEPT ![p].cause = "open"]
            /\ UNCHANGED frame
       ELSE /\ result' = [result EXCEPT ![p].seen = {Count(Committed)}]
            /\ CASE frame[p].op = "add" ->
                      LET j == NextIdx(frame[p].items, 1)
                      IN  /\ frame' = [frame EXCEPT ![p].idx = j]
                          /\ pc' = [pc EXCEPT ![p] =
                                      IF j > Len(frame[p].items) THEN "commit"
                                      ELSE "probe"]
                 [] frame[p].op = "count" ->
                      /\ pc' = [pc EXCEPT ![p] = "countWords"]
                      /\ UNCHANGED frame
                 [] frame[p].op = "clear" ->
                      /\ pc' = [pc EXCEPT ![p] = "clearWords"]
                      /\ UNCHANGED frame
                 [] frame[p].op = "update" ->
                      /\ pc' = [pc EXCEPT ![p] = "updateTx"]
                      /\ UNCHANGED frame
    /\ UNCHANGED <<store, dbPromise, openCount, upgradeLog, openFault, running,
                   calls>>
    /\ UNCHANGED query

\* const existing = await index.get(key)
Probe(p) ==
    /\ pc[p] = "probe"
    /\ p \in running \/ CanStart(p)
    /\ running' = running \cup {p}
    /\ result' = Started(p)
    /\ LET item == frame[p].items[frame[p].idx]
           j == NextIdx(frame[p].items, frame[p].idx + 1)
       IN  IF Existing(store, item) = {}
           THEN /\ pc' = [pc EXCEPT ![p] = "add"]
                /\ UNCHANGED frame
           ELSE /\ frame' = [frame EXCEPT ![p].idx = j]
                /\ pc' = [pc EXCEPT ![p] =
                            IF j > Len(frame[p].items) THEN "commit"
                            ELSE "probe"]
    /\ UNCHANGED <<store, dbPromise, openCount, upgradeLog, openFault, calls>>
    /\ UNCHANGED query

\* await store.add(data); addedCount++   A refused add rejects, the catch
\* block aborts the transaction and rethrows.
Add(p) ==
    /\ pc[p] = "add"
    /\ p \in running
    /\ LET item == frame[p].items[frame[p].idx]
           data == DataOf(item)
           j == NextIdx(frame[p].items, frame[p].idx + 1)
           refused == IF item.type = "word"
                      THEN ConstraintError(store.words, store.wordsIdx, data)
                      ELSE ConstraintError(store.idioms, store.idiomsIdx, data)
       IN  IF refused
           THEN /\ store' = Aborted(p)
                /\ running' = running \ {p}
                /\ pc' = [pc EXCEPT ![p] = "failed"]
                /\ result' = [result EXCEPT ![p].cause = "constraint",
                                            ![p].after = store']
                /\ UNCHANGED frame
           ELSE /\ store' = IF item.type = "word" THEN AddWord(store, data)
                            ELSE AddIdiom(store, data)
                /\ frame' = [frame EXCEPT ![p].idx = j,
                                          ![p].addedCount = @ + 1]
                /\ pc' = [pc EXCEPT ![p] =
                            IF j > Len(frame[p].items) THEN "commit"
                            ELSE "probe"]
                /\ UNCHANGED <<running, result>>
    /\ UNCHANGED <<dbPromise, openCount, upgradeLog, openFault, calls>>
    /\ UNCHANGED query

\* await tx.done; return addedCount   A transaction that placed no request
\* completes once it has started, which the running transaction delays.
Commit(p) ==
    /\ pc[p] = "commit"
    /\ p \in running \/ CanStart(p)
    /\ running' = running \ {p}
    /\ pc' = [pc EXCEPT ![p] = "done"]
    /\ result' = Observe([Started(p) EXCEPT ![p].ret = frame[p].addedCount,
                                            ![p].after = store], store)
    /\ UNCHANGED <<store, dbPromise, openCount, upgradeLog, openFault, frame,
                   calls>>
    /\ UNCHANGED query

\* An unexpected storage fault fails a request of the transaction, or its
\* commit: catch (error) { tx.abort(); throw error; }
Fault(p) ==
    /\ pc[p] \in {"probe", "add", "commit"}
    /\ p \in running \/ CanStart(p)
    /\ store' = Aborted(p)
    /\ running' = running \ {p}
    /\ pc' = [pc EXCEPT ![p] = "failed"]
    /\ result' = [Started(p) EXCEPT ![p].cause = "fault", ![p].after = store']
    /\ UNCHANGED <<dbPromise, openCount, upgradeLog, openFault, frame, calls>>
    /\ UNCHANGED query

\* ------------------------------------------------------------ getVocabCount
\* const wordCount = await db.count(WORDS_STORE_NAME): a transaction of its own
CountWords(p) ==
    /\ pc[p] = "countWords"
    /\ CanStart(p)
    /\ frame' = [frame EXCEPT ![p].wordCount = Cardinality(store.words)]
    /\ pc' = [pc EXCEPT ![p] = "countIdioms"]
    /\ UNCHANGED <<store, dbPromise, openCount, upgradeLog, openFault, running,
                   result, calls>>
    /\ UNCHANGED query

\* const idiomCount = await db.count(IDIOMS_STORE_NAME);
\* return wordCount + idiomCount
CountIdioms(p) ==
    /\ pc[p] = "countIdioms"
    /\ CanStart(p)
    /\ result' = [result EXCEPT
                    ![p].ret = frame[p].wordCount + Cardinality(store.idioms),
                    ![p].after = store]
    /\ pc' = [pc EXCEPT ![p] = "done"]
    /\ UNCHANGED <<store, dbPromise, openCount, upgradeLog, openFault, running,
                   frame, calls>>
    /\ UNCHANGED query

\* ------------------------------------------------------------ clearDatabase
\* await db.clear(WORDS_STORE_NAME): a transaction of its own
ClearWords(p) ==
    /\ pc[p] = "clearWords"
    /\ CanStart(p)
    /\ store' = [store EXCEPT !.words = {}]
    /\ pc' = [pc EXCEPT ![p] = "clearIdioms"]
    /\ result' = Observe([result EXCEPT ![p].before = store], store')
    /\ UNCHANGED <<dbPromise, openCount, upgradeLog, openFault, running, frame,
                   calls>>
    /\ UNCHANGED query

\* await db.clear(IDIOMS_STORE_NAME)
ClearIdioms(p) ==
    /\ pc[p] = "clearIdioms"
    /\ CanStart(p)
    /\ store' = [store EXCEPT !.idioms = {}]
    /\ pc' = [pc EXCEPT ![p] = "done"]
    /\ result' = Observe([result EXCEPT ![p].after = store'], store')
    /\ UNCHANGED <<dbPromise, openCount, upgradeLog, openFault, running, frame,
                   calls>>
    /\ UNCHANGED query

\* ---------------------------------------------------- updateFrequencyLevels
\* The updates callers hand over: { id, type, frequencyLevel }
Updates == [id : 1..2, type : {"word", "idiom"}, frequencyLevel : {3}]

\* store.put(item): the record stored under the item's id is replaced
PutPatchOnly(recs, item) ==
    {r \in recs : r.id # item.id}
        \cup {[item EXCEPT !.japanese = NULL, !.example_en = NULL,
                           !.example_jp = NULL]}
PutAlone(recs, item) == {item}
Put(recs, item) == {r \in recs : r.id # item.id} \cup {item}

\* Promise.all(updates.map(...)): every get is placed before the first put,
\* so each update reads the record as it was when the transaction started
\* (read) and then writes it back with frequencyLevel set.
RECURSIVE PutFromWordsOnly(_, _, _, _)
PutFromWordsOnly(d, read, updates, i) ==
    IF i > Len(updates) THEN d
    ELSE LET u == updates[i]
             got == {r \in read.words : r.id = u.id}
         IN  IF got = {} THEN PutFromWordsOnly(d, read, updates, i + 1)
             ELSE LET item == [(CHOOSE r \in got : TRUE) EXCEPT
                                 !.frequencyLevel = u.frequencyLevel]
                  IN  PutFromWordsOnly([d EXCEPT !.words = Put(@, item)],
                                       read, updates, i + 1)
RECURSIVE PutFrom(_, _, _, _)
PutFrom(d, read, updates, i) ==
    IF i > Len(updates) THEN d
    ELSE LET u == updates[i]
             recs == IF u.type = "word" THEN read.words ELSE read.idioms
             got == {r \in recs : r.id = u.id}
         IN  IF got = {} THEN PutFrom(d, read, updates, i + 1)
             ELSE LET item == [(CHOOSE r \in got : TRUE) EXCEPT
                                 !.frequencyLevel = u.frequencyLevel]
                  IN  PutFrom(IF u.type = "word"
                              THEN [d EXCEPT !.words = Put(@, item)]
                              ELSE [d EXCEPT !.idioms = Put(@, item)],
                              read, updates, i + 1)

\* The whole readwrite transaction of updateFrequencyLevels; no request of
\* another transaction runs between its requests.
UpdateTx(p) ==
    /\ pc[p] = "updateTx"
    /\ CanStart(p)
    /\ store' = PutFrom(store, store, frame[p].updates, 1)
    /\ pc' = [pc EXCEPT ![p] = "done"]
    /\ result' = Observe([result EXCEPT ![p].before = store,
                                        ![p].after = store'], store')
    /\ UNCHANGED <<dbPromise, openCount, upgradeLog, openFault, running, frame,
                   calls>>
    /\ UNCHANGED query

\* ---------------------------------------------------------- specifications
InitProcess ==
    /\ dbPromise = "null"
    /\ openCount = 0
    /\ upgradeLog = <<>>
    /\ running = {}
    /\ pc = [p \in Procs |-> "idle"]
    /\ frame = [p \in Procs |-> IdleFrame]
    /\ result = [p \in Procs |-> NoResult]
    /\ calls = 0
    /\ query = NoQuery

\* A fresh install: the module is loaded and no database exists yet.
Init ==
    /\ store = EmptyDb
    /\ openFault = FALSE
    /\ InitProcess

Step(p) ==
    \/ AwaitDb(p)
    \/ Probe(p)
    \/ Add(p)
    \/ Commit(p)
    \/ Fault(p)
    \/ CountWords(p)
    \/ CountIdioms(p)
    \/ ClearWords(p)
    \/ ClearIdioms(p)
    \/ UpdateTx(p)

\* The callers P start operations with lists drawn from L and updates from U.
Calls(P, L, U, maxCalls) ==
    \/ \E p \in P, items \in L :
           Call(p, "add", items, <<>>, maxCalls)
    \/ \E p \in P : Call(p, "count", <<>>, <<>>, maxCalls)
    \/ \E p \in P : Call(p, "clear", <<>>, <<>>, maxCalls)
    \/ \E p \in P, updates \in SeqsUpTo(U, MaxUpdates) :
           Call(p, "update", <<>>, updates, maxCalls)

\* One caller, one operation after the other, every kind of input record.
Next ==
    \/ Calls({"p1"}, SeqsUpTo(Items, MaxLen), Updates, MaxCalls)
    \/ OpenSettles
    \/ \E p \in Procs : Step(p)

Spec == Init /\ [][Next]_vars

\* Two callers whose operations interleave, on records that share keys.
ConcurrentLists ==
    { <<>>,
      <<Item("run", "Verb", "word", "hashiru")>>,
      <<Item("run", "Verb", "word", "keiei")>>,
      <<Item("run", "Verb", "word", "hashiru"),
        Item("run", "Verb", "word", "keiei")>>,
      <<Item("run", "Verb", "word", "hashiru"),
        Item("run", NULL, "idiom", "hashiru")>>,
      <<Item("run", NULL, "idiom", "hashiru"),
        Item("run", "Verb", "word", "keiei")>> }

ConcurrentUpdates == [id : {1}, type : {"word"}, frequencyLevel : {3}]

NextConcurrent ==
    \/ Calls(Procs, ConcurrentLists, ConcurrentUpdates, MaxConcurrentCalls)
    \/ OpenSettles
    \/ \E p \in Procs : Step(p)

SpecConcurrent == Init /\ [][NextConcurrent]_vars

\* ------------------------------------------------- the open and its upgrade
\* The databases an earlier run of the program, at any version, can have
\* left behind.
LegacyDbs ==
    { [EmptyDb EXCEPT !.version = v,
                      !.storeNames = {OLD_VOCAB_STORE_NAME},
                      !.vocabulary = [i \in DOMAIN recs |->
                                         [recs[i] EXCEPT !.id = i]]] :
        v \in 1..3, recs \in SeqsUpTo(LegacyItems, MaxLegacy) }

Version4Dbs ==
    { [EmptyDb EXCEPT !.version = 4,
                      !.storeNames = {WORDS_STORE_NAME, IDIOMS_STORE_NAME},
                      !.wordsIdx = WordsIndexesV4,
                      !.idiomsIdx = IdiomsIndexesV4,
                      !.words = w, !.wordsKeyGen = Cardinality(w)] :
        w \in { {}, {[Item("run", "Verb", "word", "hashiru") EXCEPT !.id = 1]} } }

PersistedDbs ==
    {EmptyDb} \cup LegacyDbs \cup Version4Dbs
        \cup {Upgrade(d).db : d \in Version4Dbs}

InitOpen ==
    /\ store \in PersistedDbs
    /\ openFault \in BOOLEAN
    /\ InitProcess

\* Callers start getVocabCount, the operation the application starts with.
NextOpen ==
    \/ \E p \in Procs : Call(p, "count", <<>>, <<>>, MaxOpenCalls)
    \/ OpenSettles
    \/ FaultClears
    \/ \E p \in Procs : AwaitDb(p)
    \/ \E p \in Procs : CountWords(p)
    \/ \E p \in Procs : CountIdioms(p)

SpecOpen == InitOpen /\ [][NextOpen]_vars

\* ------------------------------------- the upgrade on an existing schema
StoredWord == [Item("run", "Verb", "word", "hashiru") EXCEPT !.id = 1]
StoredIdiom == [Item("run", NULL, "idiom", "keiei") EXCEPT !.id = 1]

\* A database with the stores S, the indexes wi and ii and the records w, i.
SchemaDb(v, S, wi, ii, w, i) ==
    [EmptyDb EXCEPT !.version = v, !.storeNames = S,
                    !.wordsIdx = wi, !.idiomsIdx = ii,
                    !.words = w, !.wordsKeyGen = Cardinality(w),
                    !.idioms = i, !.idiomsKeyGen = Cardinality(i)]

\* Databases below version 4 that hold some of the stores and indexes of the
\* current schema already, and no legacy store: the code that wrote them is
\* not in the repository, so any part of the schema may exist.
PartialV4Dbs ==
    { SchemaDb(v, S, wi, ii, w, i) :
        v \in 1..3,
        S \in (SUBSET {WORDS_STORE_NAME, IDIOMS_STORE_NAME}) \ {{}},
        wi \in SUBSET (WordsIndexesV4 \cup {FrequencyIndex}),
        ii \in SUBSET (IdiomsIndexesV4 \cup {FrequencyIndex}),
        w \in {{}, {StoredWord}}, i \in {{}, {StoredIdiom}} }

\* A store that does not exist has no indexes and no records.
WellFormed(d) ==
    /\ WORDS_STORE_NAME \notin d.storeNames => d.wordsIdx = {} /\ d.words = {}
    /\ IDIOMS_STORE_NAME \notin d.storeNames
           => d.idiomsIdx = {} /\ d.idioms = {}

\* Databases at version 4, written by the version 4 step, on which the
\* version 5 step was applied in part.
PartialV5Dbs ==
    { SchemaDb(4, {WORDS_STORE_NAME, IDIOMS_STORE_NAME},
               WordsIndexesV4 \cup wf, IdiomsIndexesV4 \cup if, w, i) :
        wf \in SUBSET {FrequencyIndex}, if \in SUBSET {FrequencyIndex},
        w \in {{}, {StoredWord}}, i \in {{}, {StoredIdiom}} }

\* The same, and the databases the upgrade has brought to the current version.
MigratedDbs ==
    LET partial == {d \in PartialV4Dbs : WellFormed(d)} \cup PartialV5Dbs
    IN  partial \cup {Upgrade(d).db : d \in partial}

InitUpgrade ==
    /\ store \in MigratedDbs
    /\ openFault = FALSE
    /\ InitProcess

NextUpgrade ==
    \/ \E p \in Procs : Call(p, "count", <<>>, <<>>, MaxOpenCalls)
    \/ OpenSettles
    \/ \E p \in Procs : AwaitDb(p)
    \/ \E p \in Procs : CountWords(p)
    \/ \E p \in Procs : CountIdioms(p)

SpecUpgrade == InitUpgrade /\ [][NextUpgrade]_vars

\* ------------------------------------ updateFrequencyLevels on a catalog
MaxUpdateLen == 2
MaxUpdateCalls == 1

\* The records of the catalog, as addVocabularyItems stores them.
CatalogItems ==
    { Item("run", "Verb", "word", "hashiru"),
      [Item("run", "Noun", "word", "kyoso") EXCEPT !.frequencyLevel = 1],
      Item("run", NULL, "idiom", "keiei") }

\* The database after the records of items were added one by one.
RECURSIVE AddAll(_, _, _)
AddAll(d, items, i) ==
    IF i > Len(items) THEN d
    ELSE LET data == items[i]
         IN  IF data.type = "word"
             THEN IF ConstraintError(d.words, d.wordsIdx, data)
                  THEN AddAll(d, items, i + 1)
                  ELSE AddAll(AddWord(d, data), items, i + 1)
             ELSE IF ConstraintError(d.idioms, d.idiomsIdx, data)
                  THEN AddAll(d, items, i + 1)
                  ELSE AddAll(AddIdiom(d, data), items, i + 1)

CatalogDbs ==
    { AddAll(Upgrade(EmptyDb).db, items, 1) :
        items \in SeqsUpTo(CatalogItems, Cardinality(CatalogItems)) }

UpdateInputs == [id : 1..2, type : {"word", "idiom"}, frequencyLevel : {2, 3}]

InitUpdate ==
    /\ store \in CatalogDbs
    /\ openFault = FALSE
    /\ InitProcess

NextUpdate ==
    \/ \E updates \in SeqsUpTo(UpdateInputs, MaxUpdateLen) :
           Call("p1", "update", <<>>, updates, MaxUpdateCalls)
    \/ OpenSettles
    \/ AwaitDb("p1")
    \/ UpdateTx("p1")

SpecUpdate == InitUpdate /\ [][NextUpdate]_vars

\* ------------------------------------------------------- text and arrays
\* In the queries a string is the sequence of its characters, over the
\* letters a and b in both cases.
\* String.prototype.toLowerCase
ToLower(c) == IF c = "A" THEN "a" ELSE IF c = "B" THEN "b" ELSE c
ToLowerCaseIdentity(t) == t
ToLowerCase(t) == [i \in DOMAIN t |-> ToLower(t[i])]

\* String.prototype.includes
Includes(t, s) ==
    \E k \in 0..(Len(t) - Len(s)) : SubSeq(t, k + 1, k + Len(s)) = s

\* The order of two sequences of numbers: -1, 0 or 1.
RECURSIVE CompareFrom(_, _, _)
CompareFrom(x, y, i) ==
    IF i > Len(x) /\ i > Len(y) THEN 0
    ELSE IF i > Len(x) THEN -1
    ELSE IF i > Len(y) THEN 1
    ELSE IF x[i] < y[i] THEN -1
    ELSE IF x[i] > y[i] THEN 1
    ELSE CompareFrom(x, y, i + 1)

\* String.prototype.localeCompare in the default collation: the letters
\* decide whatever their case; between strings of the same letters the
\* lower case comes first.
Primary(t) == [i \in DOMAIN t |-> IF ToLower(t[i]) = "a" THEN 1 ELSE 2]
Tertiary(t) == [i \in DOMAIN t |-> IF t[i] = ToLower(t[i]) THEN 0 ELSE 1]
LocaleCompare(a, b) ==
    LET letters == CompareFrom(Primary(a), Primary(b), 1)
    IN  IF letters # 0 THEN letters
        ELSE CompareFrom(Tertiary(a), Tertiary(b), 1)

\* (a, b) => a.english.localeCompare(b.english)
\* (a, b) => (a.id ?? 0) - (b.id ?? 0)
Compare(a, b, order) ==
    IF order = "alphabetical" THEN LocaleCompare(a.english, b.english)
    ELSE a.id - b.id

\* Array.prototype.sort with a comparison function: a stable sort.  x goes
\* behind every element of the sorted array that is not greater.
RECURSIVE InsertSorted(_, _, _)
InsertSorted(sorted, x, order) ==
    IF sorted = <<>> THEN <<x>>
    ELSE LET last == sorted[Len(sorted)]
         IN  IF Compare(last, x, order) > 0
             THEN Append(InsertSorted(SubSeq(sorted, 1, Len(sorted) - 1),
                                      x, order), last)
             ELSE Append(sorted, x)

SortSkipped(seq, order) == seq
RECURSIVE Sort(_, _)
Sort(seq, order) ==
    IF seq = <<>> THEN <<>>
    ELSE InsertSorted(Sort(SubSeq(seq, 1, Len(seq) - 1), order),
                      seq[Len(seq)], order)

Min(a, b) == IF a < b THEN a ELSE b
Max(a, b) == IF a > b THEN a ELSE b

\* Array.prototype.slice(start, end): a negative index counts from the end
SliceIndex(k, len) == IF k < 0 THEN Max(len + k, 0) ELSE Min(k, len)
SliceEndIncluded(seq, start, end) ==
    SubSeq(seq, SliceIndex(start, Len(seq)) + 1,
           SliceIndex(end + 1, Len(seq)))
Slice(seq, start, end) ==
    SubSeq(seq, SliceIndex(start, Len(seq)) + 1, SliceIndex(end, Len(seq)))

\* db.getAll(storeName): the records of a store in the order of their keys
RECURSIVE GetAll(_)
GetAll(recs) ==
    IF recs = {} THEN <<>>
    ELSE LET first == CHOOSE r \in recs : \A q \in recs : r.id <= q.id
         IN  <<first>> \o GetAll(recs \ {first})

\* db.getAllFromIndex(storeName, 'level_category', IDBKeyRange.only(key)):
\* the records the index holds under key, in the order of their ids
GetAllFromIndex(recs, idxs, name, key) ==
    GetAll(IndexGet(recs, IndexNamed(idxs, name), key))

\* ----------------------------------------------- getPaginatedVocabulary
\* const matches = (item) => { ... }; an omitted filter is NULL, 0 or ""
Matches(item, filters, lowerCaseSearch) ==
    /\ ~(filters.level # NULL /\ item.level # filters.level)
    /\ ~(filters.category # NULL /\ item.category # filters.category)
    /\ ~(filters.type # NULL /\ item.type # filters.type)
    /\ ~(filters.frequencyLevel # 0
         /\ item.frequencyLevel # filters.frequencyLevel)
    /\ ~(/\ lowerCaseSearch # <<>>
         /\ ~Includes(ToLowerCase(item.english), lowerCaseSearch)
         /\ ~Includes(ToLowerCase(item.japanese), lowerCaseSearch))

\* allMatchingItems, once sorted
AllMatchingItems(d, filters) ==
    LET lowerCaseSearch == ToLowerCase(filters.search)
        Test(item) == Matches(item, filters, lowerCaseSearch)
        words == IF filters.type # "idiom"
                 THEN SelectSeq(GetAll(d.words), Test) ELSE <<>>
        idioms == IF filters.type # "word"
                  THEN SelectSeq(GetAll(d.idioms), Test) ELSE <<>>
    IN  Sort(words \o idioms,
             IF filters.sortOrder = "alphabetical" THEN "alphabetical"
             ELSE "default")

GetPaginatedVocabularyPageTotal(d, page, itemsPerPage, filters) ==
    LET allMatchingItems == AllMatchingItems(d, filters)
        start == (page - 1) * itemsPerPage
        items == Slice(allMatchingItems, start, start + itemsPerPage)
    IN  [items |-> items, total |-> Len(items)]
GetPaginatedVocabulary(d, page, itemsPerPage, filters) ==
    LET allMatchingItems == AllMatchingItems(d, filters)
        start == (page - 1) * itemsPerPage
    IN  [items |-> Slice(allMatchingItems, start, start + itemsPerPage),
         total |-> Len(allMatchingItems)]

\* ------------------------------------------------------------ getVocabulary
\* [allItems[i], allItems[j]] = [allItems[j], allItems[i]]
Swap(seq, i, j) == [seq EXCEPT ![i] = seq[j], ![j] = seq[i]]

\* for (let i = allItems.length - 1; i > 0; i--) {
\*     const j = Math.floor(Math.random() * (i + 1)); swap }
\* with positions counted from 1: js[i] in 1..i is the j drawn at step i.
RECURSIVE Shuffle(_, _, _)
Shuffle(seq, js, i) ==
    IF i < 2 THEN seq ELSE Shuffle(Swap(seq, i, js[i]), js, i - 1)

\* The draws of Math.random() in one shuffle of n elements
Draws(n) == {js \in [2..n -> 1..n] : \A i \in 2..n : js[i] <= i}

\* allItems of getVocabulary before it is ordered
VocabularyItems(d, level, category, vocabType, posFilter, frequencyLevel) ==
    LET words == IF vocabType = "word" \/ vocabType = "all"
                 THEN GetAllFromIndex(d.words, d.wordsIdx, "level_category",
                                      <<level, category>>)
                 ELSE <<>>
        idioms == IF vocabType = "idiom" \/ vocabType = "all"
                  THEN GetAllFromIndex(d.idioms, d.idiomsIdx, "level_category",
                                       <<level, category>>)
                  ELSE <<>>
        PosOk(item) == item.pos = posFilter
        FrequencyOk(item) == item.frequencyLevel = frequencyLevel
        byPos == IF posFilter # "all" THEN SelectSeq(words \o idioms, PosOk)
                 ELSE words \o idioms
    IN  IF frequencyLevel # 0 THEN SelectSeq(byPos, FrequencyOk) ELSE byPos

\* allItems of getVocabulary once ordered; js are the draws of the shuffle
VocabularyOrdered(allItems, sortOrder, js) ==
    IF sortOrder = "Alphabetical" THEN Sort(allItems, "alphabetical")
    ELSE Shuffle(allItems, js, Len(allItems))

\* return allItems.slice(0, count)
GetVocabulary(ordered, count) == Slice(ordered, 0, count)

\* ---------------------------------------- getAllVocabularyForLevelAndCategory
\* allItems of getAllVocabularyForLevelAndCategory before it is ordered
AllVocabularyItemsNoTier(d, level, category, vocabType, posFilter, frequencyLevel) ==
    LET words == IF vocabType = "word" \/ vocabType = "all"
                 THEN GetAllFromIndex(d.words, d.wordsIdx, "level_category",
                                      <<level, category>>)
                 ELSE <<>>
        idioms == IF vocabType = "idiom" \/ vocabType = "all"
                  THEN GetAllFromIndex(d.idioms, d.idiomsIdx, "level_category",
                                       <<level, category>>)
                  ELSE <<>>
        PosOk(item) == item.pos = posFilter
    IN  IF posFilter # "all" THEN SelectSeq(words \o idioms, PosOk)
        ELSE words \o idioms
AllVocabularyItems(d, level, category, vocabType, posFilter, frequencyLevel) ==
    LET words == IF vocabType = "word" \/ vocabType = "all"
                 THEN GetAllFromIndex(d.words, d.wordsIdx, "level_category",
                                      <<level, category>>)
                 ELSE <<>>
        idioms == IF vocabType = "idiom" \/ vocabType = "all"
                  THEN GetAllFromIndex(d.idioms, d.idiomsIdx, "level_category",
                                       <<level, category>>)
                  ELSE <<>>
        PosOk(item) == item.pos = posFilter
        FrequencyOk(item) == item.frequencyLevel = frequencyLevel
        byPos == IF posFilter # "all" THEN SelectSeq(words \o idioms, PosOk)
                 ELSE words \o idioms
    IN  IF frequencyLevel # 0 THEN SelectSeq(byPos, FrequencyOk) ELSE byPos

\* allItems of getAllVocabularyForLevelAndCategory once ordered: what it
\* returns
GetAllVocabularyForLevelAndCategory(allItems, sortOrder, js) ==
    IF sortOrder = "Alphabetical" THEN Sort(allItems, "alphabetical")
    ELSE Shuffle(allItems, js, Len(allItems))

\* --------------------------------------------------------- getExistingWords
ALL_LEVELS == "All Levels"
ALL_CATEGORIES == "All Categories"

\* items of getExistingWords before it is ordered
ExistingItems(d, level, category, type) ==
    LET words == IF type = "word" \/ type = "all" THEN GetAll(d.words)
                 ELSE <<>>
        idioms == IF type = "idiom" \/ type = "all" THEN GetAll(d.idioms)
                  ELSE <<>>
        LevelOk(item) == item.level = level
        CategoryOk(item) == item.category = category
        byLevel == IF level # ALL_LEVELS THEN SelectSeq(words \o idioms, LevelOk)
                   ELSE words \o idioms
    IN  IF category # ALL_CATEGORIES THEN SelectSeq(byLevel, CategoryOk)
        ELSE byLevel

\* items.sort(() => 0.5 - Math.random()): the sort of Array.prototype.sort,
\* as modelled by Sort, with a comparison function that ignores its arguments
\* and answers by the toss of a coin.  coins[c] is TRUE when the c-th call of
\* the comparison function returns a positive number; next is the number of
\* the call to come.
RECURSIVE InsertTossed(_, _, _, _)
InsertTossed(sorted, x, coins, c) ==
    IF sorted = <<>> THEN [seq |-> <<x>>, next |-> c]
    ELSE IF coins[c]
    THEN LET r == InsertTossed(SubSeq(sorted, 1, Len(sorted) - 1), x, coins,
                               c + 1)
         IN  [seq |-> Append(r.seq, sorted[Len(sorted)]), next |-> r.next]
    ELSE [seq |-> Append(sorted, x), next |-> c + 1]

RECURSIVE SortTossed(_, _)
SortTossed(seq, coins) ==
    IF seq = <<>> THEN [seq |-> <<>>, next |-> 1]
    ELSE LET r == SortTossed(SubSeq(seq, 1, Len(seq) - 1), coins)
         IN  InsertTossed(r.seq, seq[Len(seq)], coins, r.next)

\* The comparisons a sort of n elements makes at most, and their outcomes
Tosses(n) == [1..((n * (n - 1)) \div 2) -> BOOLEAN]

\* item.type === 'word' && item.pos ? `${item.english}-${item.pos}`
\*                                  : item.english
RenderEnglishOnly(item) == item.english
Render(item) ==
    IF item.type = "word" /\ item.pos # NULL
    THEN item.english \o <<"-", item.pos>>
    ELSE item.english

\* shuffled.slice(0, limit).map(...)
GetExistingWords(shuffled, limit) ==
    LET sample == Slice(shuffled, 0, limit)
    IN  [k \in DOMAIN sample |-> Render(sample[k])]

\* ------------------------------------------------ the queries on a catalog
MaxPage == 3
MaxPageSize == 2

Rec(id, english, japanese, pos, type, level, category, frequencyLevel) ==
    [Item(english, pos, type, japanese) EXCEPT
        !.id = id, !.level = level, !.category = category,
        !.frequencyLevel = frequencyLevel]

\* Stored records that differ in level, category, tier, part of speech and
\* in the case of their letters; the two stores number their records
\* independently.
QueryWords ==
    { Rec(1, <<"a", "b">>, <<"b">>, "Verb", "word", "Beginner", "Business", 1),
      Rec(2, <<"B">>, <<"a", "A">>, "Noun", "word", "Beginner", "Business", 0),
      Rec(3, <<"a">>, <<"b", "b">>, "Verb", "word", "Advanced", "Travel", 2) }
QueryIdioms ==
    { Rec(1, <<"A", "b">>, <<"a">>, NULL, "idiom", "Beginner", "Business", 1),
      Rec(2, <<"b">>, <<"B", "a">>, NULL, "idiom", "Advanced", "Business", 0) }

QueryDbs ==
    { [Upgrade(EmptyDb).db EXCEPT
          !.words = w, !.wordsKeyGen = Cardinality(QueryWords),
          !.idioms = i, !.idiomsKeyGen = Cardinality(QueryIdioms)] :
        w \in SUBSET QueryWords, i \in SUBSET QueryIdioms }

\* The filters of getPaginatedVocabulary; NULL, 0 and "" are omitted ones.
Filters ==
    [level : {NULL, "Beginner", "Advanced"},
     category : {NULL, "Business"},
     type : {NULL, "word", "idiom"},
     search : {<<>>, <<"A">>, <<"b", "A">>},
     sortOrder : {"default", "alphabetical"},
     frequencyLevel : {0, 1}]

\* The database is open and holds a catalog; nothing writes to it.
InitCatalog(dbs) ==
    /\ store \in dbs
    /\ dbPromise = "resolved"
    /\ openCount = 1
    /\ upgradeLog = <<>>
    /\ openFault = FALSE
    /\ running = {}
    /\ pc = [p \in Procs |-> "idle"]
    /\ frame = [p \in Procs |-> IdleFrame]
    /\ result = [p \in Procs |-> NoResult]
    /\ calls = 0
    /\ query = NoQuery

InitQuery == InitCatalog(QueryDbs)

\* A query is answered from the store and its arguments alone, so one
\* query per behaviour shows every answer.
Unanswered == query = NoQuery

Answer(q) ==
    /\ query' = q
    /\ UNCHANGED <<store, dbPromise, openCount, upgradeLog, openFault, running,
                   pc, frame, result, calls>>

Paginated(sizes) ==
    /\ Unanswered
    /\ \E page \in 1..MaxPage, itemsPerPage \in sizes, filters \in Filters :
        Answer([op |-> "getPaginatedVocabulary",
                args |-> [page |-> page, itemsPerPage |-> itemsPerPage,
                          filters |-> filters],
                out |-> GetPaginatedVocabulary(store, page, itemsPerPage,
                                               filters)])

MaxCount == 2
\* The number of records a practice session asks for
SessionCount == 30
\* The number of existing words handed to the generation service
ExistingWordsLimit == 1500

VocabularyArgs ==
    [level : {"Beginner", "Advanced"}, category : {"Business", "Travel"},
     vocabType : {"word", "idiom", "all"}, posFilter : {"all", "Verb"},
     sortOrder : {"Random", "Alphabetical"}, frequencyLevel : {0, 1}]

Vocabulary ==
    /\ Unanswered
    /\ \E a \in VocabularyArgs, count \in 0..MaxCount \cup {SessionCount} :
        LET allItems == VocabularyItems(store, a.level, a.category,
                                        a.vocabType, a.posFilter,
                                        a.frequencyLevel)
        IN  \E js \in Draws(Len(allItems)) :
                LET ordered == VocabularyOrdered(allItems, a.sortOrder, js)
                IN  Answer([op |-> "getVocabulary",
                            args |-> a, count |-> count, ordered |-> ordered,
                            out |-> GetVocabulary(ordered, count)])

AllVocabulary ==
    /\ Unanswered
    /\ \E a \in VocabularyArgs :
        LET allItems == AllVocabularyItems(store, a.level, a.category,
                                           a.vocabType, a.posFilter,
                                           a.frequencyLevel)
        IN  \E js \in Draws(Len(allItems)) :
                LET ordered == GetAllVocabularyForLevelAndCategory(
                                   allItems, a.sortOrder, js)
                IN  Answer([op |-> "getAllVocabularyForLevelAndCategory",
                            args |-> a, ordered |-> ordered, out |-> ordered])

ExistingArgs ==
    [level : {ALL_LEVELS, "Beginner"}, category : {ALL_CATEGORIES, "Business"},
     type : {"word", "idiom", "all"}]

ExistingWords ==
    /\ Unanswered
    /\ \E a \in ExistingArgs, limit \in 0..MaxCount \cup {ExistingWordsLimit} :
        LET items == ExistingItems(store, a.level, a.category, a.type)
        IN  \E coins \in Tosses(Len(items)) :
                LET shuffled == SortTossed(items, coins).seq
                IN  Answer([op |-> "getExistingWords",
                            args |-> a, limit |-> limit, ordered |-> shuffled,
                            out |-> GetExistingWords(shuffled, limit)])

\* The page size the word list starts with, and a catalog of 45 words.
DefaultItemsPerPage == 20
ManyRecords == 45

Letter == <<"a", "b", "A", "B">>
ManyWords ==
    { Rec(k, <<Letter[((k \div 16) % 4) + 1], Letter[((k \div 4) % 4) + 1],
               Letter[(k % 4) + 1]>>,
          <<"a">>, "Noun", "word", "Beginner", "Business", 0) :
        k \in 1..ManyRecords }
ManyDb ==
    [Upgrade(EmptyDb).db EXCEPT !.words = ManyWords,
                                !.wordsKeyGen = ManyRecords]

InitPages == InitCatalog(QueryDbs \cup {ManyDb})

NextPages == Paginated(1..MaxPageSize \cup {DefaultItemsPerPage})

NextQuery ==
    \/ Paginated(1..MaxPageSize)
    \/ Vocabulary
    \/ AllVocabulary
    \/ ExistingWords

SpecQuery == InitQuery /\ [][NextQuery]_vars

SpecPages == InitPages /\ [][NextPages]_vars


\* ------------------------------------------------------ handleAiCollection
MaxResponse == 2
MaxCollectCalls == 1

\* AIResponseItem: any of the fields may be missing from what the service
\* sends; the last entry repeats a word the catalog may already hold.
AIResponseItems ==
    { Item("go", "Verb", "word", "iku"),
      [Item("go", "Noun", "word", "iku") EXCEPT !.level = NULL,
                                                !.category = NULL,
                                                !.type = NULL],
      Item("go", "Verb", "idiom", "iku"),
      Item("go", NULL, "word", "iku"),
      Item("run", "Verb", "word", NULL) }

\* What ai.models.generateContent does: it fails, or its text parses to null
\* or to a list.
ServiceAnswers ==
    { [kind |-> k, items |-> <<>>] : k \in {"null", "throws"} }
        \cup { [kind |-> "items", items |-> s] :
                 s \in SeqsUpTo(AIResponseItems, MaxResponse) }

\* try { ... return parseJsonResponse(response.text) } catch { return null }
GenerateVocabulary(answer) ==
    IF answer.kind = "items" THEN answer
    ELSE [kind |-> "null", items |-> <<>>]

\* The .map of handleAiCollection: level and category default to the
\* arguments, the type argument overrides the item's, an idiom loses its pos.
Completed(item, level, category, type) ==
    LET itemType == IF type = "all" THEN item.type ELSE type
    IN  [item EXCEPT
           !.level = IF item.level # NULL THEN item.level
                     ELSE IF level # ALL_LEVELS THEN level ELSE NULL,
           !.category = IF item.category # NULL THEN item.category
                        ELSE IF category # ALL_CATEGORIES THEN category
                        ELSE NULL,
           !.type = itemType,
           !.pos = IF itemType = "word" THEN item.pos ELSE NULL]

\* The .filter of handleAiCollection
ValidAlways(item) == TRUE
Valid(item) ==
    /\ item.english # NULL
    /\ item.japanese # NULL
    /\ item.example_en # NULL
    /\ item.example_jp # NULL
    /\ item.level # NULL
    /\ item.category # NULL
    /\ item.type # NULL
    /\ item.type = "word" =>
           item.pos # NULL /\ item.pos \in PARTS_OF_SPEECH

ValidatedItems(newItems, level, category, type) ==
    SelectSeq([i \in DOMAIN newItems |->
                 Completed(newItems[i], level, category, type)], Valid)

\* The round from the service's answer on: `return 0` on nothing usable,
\* otherwise addVocabularyItems(validatedItems) is started.  The query made
\* before it, getExistingWords, only reads.
HandleAiCollection(p) ==
    /\ Unanswered
    /\ \E level \in {ALL_LEVELS, "Beginner"},
          category \in {ALL_CATEGORIES, "Business"},
          type \in {"all", "word", "idiom"},
          answer \in ServiceAnswers :
         LET newItems == GenerateVocabulary(answer)
             validatedItems ==
                 ValidatedItems(newItems.items, level, category, type)
             adds == /\ newItems.kind # "null"
                     /\ Len(newItems.items) # 0
                     /\ Len(validatedItems) > 0
         IN  /\ query' = [op |-> "handleAiCollection",
                          args |-> [level |-> level, category |-> category,
                                    type |-> type],
                          answer |-> answer, validated |-> validatedItems,
                          before |-> store, called |-> adds,
                          settled |-> ~adds, threw |-> FALSE, ret |-> 0]
             /\ IF adds
                THEN Invoke(p, "add", validatedItems, <<>>, MaxCollectCalls)
                ELSE UNCHANGED <<store, dbPromise, openCount, upgradeLog,
                                 openFault, running, pc, frame, result, calls>>

\* const addedCount = await addVocabularyItems(validatedItems);
\* await updateWordCount(); return addedCount   A rejection propagates; the
\* count that is refreshed is display state.
CollectReturns(p) ==
    /\ query # NoQuery
    /\ query.op = "handleAiCollection"
    /\ ~query.settled
    /\ pc[p] \in {"done", "failed"}
    /\ query' = [query EXCEPT !.settled = TRUE,
                              !.threw = pc[p] = "failed",
                              !.ret = IF pc[p] = "done" THEN result[p].ret
                                      ELSE 0]
    /\ UNCHANGED <<store, dbPromise, openCount, upgradeLog, openFault,
                   running, pc, frame, result, calls>>

InitCollect == InitCatalog(CatalogDbs)

NextCollect ==
    \/ HandleAiCollection("p1")
    \/ AwaitDb("p1")
    \/ Probe("p1")
    \/ Add("p1")
    \/ Commit("p1")
    \/ Fault("p1")
    \/ CollectReturns("p1")

SpecCollect == InitCollect /\ [][NextCollect]_vars


\* ------------------------------------------- ingest of arbitrary entries
MaxIngestCalls == 1

\* LEVELS and VOCAB_CATEGORIES, the values of the two enumerations
LEVELS == {"Beginner", "Intermediate", "Advanced"}
VOCAB_CATEGORIES == {"Business", "Travel", "Daily Life", "Finance", "Health"}

\* The entries a caller can hand to addVocabularyItems, an imported JSON file
\* being one source: complete ones, ones with a field missing, and ones that
\* carry an id, a frequencyLevel, or a level or category of no enumeration.
Entry == Item("go", "Verb", "word", "iku")

IngestItems ==
    { Item("go", "Noun", "word", "iku"),
      Item("go", NULL, "idiom", "iku"),
      [Entry EXCEPT !.english = NULL],
      [Entry EXCEPT !.type = NULL],
      [Entry EXCEPT !.japanese = NULL],
      [Entry EXCEPT !.example_en = NULL],
      [Entry EXCEPT !.example_jp = NULL],
      [Entry EXCEPT !.level = NULL],
      [Entry EXCEPT !.category = NULL],
      [Entry EXCEPT !.level = "Expert"],
      [Entry EXCEPT !.category = "Cooking"],
      [Entry EXCEPT !.id = 1],
      [Entry EXCEPT !.frequencyLevel = 7] }

\* One entry, or one entry followed by a complete one of either kind.
IngestLists ==
    { <<>> } \cup { <<x>> : x \in IngestItems }
        \cup { <<x, y>> : x \in IngestItems,
                          y \in { Item("go", "Noun", "word", "iku"),
                                  Item("go", NULL, "idiom", "iku") } }

InitIngest == InitCatalog(CatalogDbs)

NextIngest ==
    \/ \E items \in IngestLists :
           Call("p1", "add", items, <<>>, MaxIngestCalls)
    \/ AwaitDb("p1")
    \/ Probe("p1")
    \/ Add("p1")
    \/ Commit("p1")
    \/ Fault("p1")

SpecIngest == InitIngest /\ [][NextIngest]_vars


\* ------------------------------- a store through its life: open, ingest,
\* annotate, clear, ingest again
MaxLifecycleCalls == 3

\* What the program finds at start: nothing, or the 'vocabulary' store of a
\* version before 4.
LifecycleDbs ==
    {EmptyDb} \cup {d \in LegacyDbs : d.version = DB_VERSION - 2}

\* The second list carries an id, as an exported record does.
LifecycleLists ==
    { <<Item("run", "Verb", "word", "hashiru")>>,
      <<Item("run", NULL, "idiom", "hashiru"),
        [Item("go", "Verb", "word", "iku") EXCEPT !.id = 1]>> }

LifecycleUpdates == [id : {1}, type : {"word", "idiom"}, frequencyLevel : {3}]

InitLifecycle ==
    /\ store \in LifecycleDbs
    /\ openFault = FALSE
    /\ InitProcess

NextLifecycle ==
    \/ \E items \in LifecycleLists :
           Call("p1", "add", items, <<>>, MaxLifecycleCalls)
    \/ Call("p1", "clear", <<>>, <<>>, MaxLifecycleCalls)
    \/ \E updates \in SeqsUpTo(LifecycleUpdates, MaxUpdates) :
           Call("p1", "update", <<>>, updates, MaxLifecycleCalls)
    \/ OpenSettles
    \/ AwaitDb("p1")
    \/ Probe("p1")
    \/ Add("p1")
    \/ Commit("p1")
    \/ Fault("p1")
    \/ ClearWords("p1")
    \/ ClearIdioms("p1")
    \/ UpdateTx("p1")

SpecLifecycle == InitLifecycle /\ [][NextLifecycle]_vars


\* --------------------------------------- a listing of what was just added
MaxListing == 3

\* Entries of both kinds, with the english of each spelled out.
ListingItems ==
    { Rec(0, <<"a">>, <<"b">>, "Verb", "word", "Beginner", "Business", 0),
      Rec(0, <<"b">>, <<"a">>, "Noun", "word", "Beginner", "Business", 0),
      Rec(0, <<"a", "b">>, <<"b">>, NULL, "idiom", "Beginner", "Business", 0),
      Rec(0, <<"b", "a">>, <<"a">>, NULL, "idiom", "Advanced", "Business", 0) }

\* The state in which addVocabularyItems(items), called on the empty
\* database, has returned: each entry was added in the order of the list.
InitListing ==
    \E items \in SeqsUpTo(ListingItems, MaxListing) :
        LET before == Upgrade(EmptyDb).db
            after == AddAll(before, items, 1)
        IN  /\ store = after
            /\ dbPromise = "resolved"
            /\ openCount = 1
            /\ upgradeLog = <<>>
            /\ openFault = FALSE
            /\ running = {}
            /\ pc = [p \in Procs |-> IF p = "p1" THEN "done" ELSE "idle"]
            /\ frame = [p \in Procs |->
                          IF p = "p1"
                          THEN [IdleFrame EXCEPT !.op = "add",
                                                 !.items = items,
                                                 !.idx = Len(items) + 1,
                                                 !.addedCount = Count(after),
                                                 !.promise = 1]
                          ELSE IdleFrame]
            /\ result = [p \in Procs |->
                           IF p = "p1"
                           THEN [NoResult EXCEPT !.ret = Count(after),
                                                 !.before = before,
                                                 !.after = after,
                                                 !.seen = {0}]
                           ELSE NoResult]
            /\ calls = 1
            /\ query = NoQuery

NextListing == Paginated({MaxPageSize})

SpecListing == InitListing /\ [][NextListing]_vars


\* ------------------------------------ sessions on a migrated legacy store
\* Records of the legacy 'vocabulary' store with the english spelled out;
\* the second is an idiom that carries a part of speech.
MigratedItems ==
    { Rec(0, <<"a">>, <<"b">>, "Verb", "word", "Beginner", "Business", 0),
      Rec(0, <<"a", "b">>, <<"b">>, "Verb", "idiom", "Beginner", "Business", 0),
      Rec(0, <<"b">>, <<"a">>, NULL, "idiom", "Beginner", "Business", 0) }

MigratedLegacyDbs ==
    { [EmptyDb EXCEPT !.version = DB_VERSION - 2,
                      !.storeNames = {OLD_VOCAB_STORE_NAME},
                      !.vocabulary = [i \in DOMAIN recs |->
                                         [recs[i] EXCEPT !.id = i]]] :
        recs \in SeqsUpTo(MigratedItems, MaxLegacy) }

InitMigrated ==
    /\ store \in MigratedLegacyDbs
    /\ openFault = FALSE
    /\ InitProcess

\* The application counts the records at start, which opens and upgrades the
\* database; the practice screens query it once it is open.
NextMigrated ==
    \/ Call("p1", "count", <<>>, <<>>, MaxOpenCalls)
    \/ OpenSettles
    \/ AwaitDb("p1")
    \/ CountWords("p1")
    \/ CountIdioms("p1")
    \/ dbPromise = "resolved" /\ Vocabulary
    \/ dbPromise = "resolved" /\ AllVocabulary

SpecMigrated == InitMigrated /\ [][NextMigrated]_vars

\* ===================================================================== claims
Range(f) == {f[i] : i \in DOMAIN f}

DoneAdd(p) == pc[p] = "done" /\ frame[p].op = "add"

\* ---------------------------------------------------------------------- C1
\* C1: in every reachable state, under any interleaving of addVocabularyItems,
\* updateFrequencyLevels and clearDatabase calls, the words store holds at
\* most one record per (english, pos) and the idioms store at most one
\* record per english.
C1_Uniqueness ==
    /\ \A r, q \in store.words :
           (r.english = q.english /\ r.pos = q.pos) => r = q
    /\ \A r, q \in store.idioms : r.english = q.english => r = q

\* A list that repeats a key (with other content) was ingested and one
\* record of that key is stored.
C1_Witness ==
    \E p \in Procs :
        /\ DoneAdd(p)
        /\ Len(frame[p].items) = 2
        /\ frame[p].items[1] # frame[p].items[2]
        /\ frame[p].items[1].type = "word"
        /\ frame[p].items[2].type = "word"
        /\ frame[p].items[1].pos = frame[p].items[2].pos
        /\ result[p].ret = 1
        /\ Cardinality(store.words) = 1

\* ---------------------------------------------------------------------- C2
\* C2: when a storage fault fails an addVocabularyItems call, the call ends
\* failed and both stores are what they were before the call, whatever the
\* call had inserted by then.
C2_FaultRollsBack ==
    \A p \in Procs :
        (pc[p] = "failed" /\ frame[p].op = "add" /\ result[p].cause = "fault")
            => /\ result[p].after.words = result[p].before.words
               /\ result[p].after.idioms = result[p].before.idioms

\* A call failed by a fault after it had inserted a record.
C2_Witness ==
    \E p \in Procs :
        /\ pc[p] = "failed"
        /\ frame[p].op = "add"
        /\ result[p].cause = "fault"
        /\ frame[p].addedCount >= 1
        /\ store.words = result[p].before.words
        /\ store.idioms = result[p].before.idioms

\* ---------------------------------------------------------------------- C3
\* The uniqueness keys of the valid entries of a list, by kind.
ValidWord(it) ==
    /\ it.english # NULL /\ it.japanese # NULL /\ it.example_en # NULL
    /\ it.example_jp # NULL /\ it.level # NULL /\ it.category # NULL
    /\ it.type = "word" /\ it.pos \in PARTS_OF_SPEECH
ValidIdiom(it) ==
    /\ it.english # NULL /\ it.japanese # NULL /\ it.example_en # NULL
    /\ it.example_jp # NULL /\ it.level # NULL /\ it.category # NULL
    /\ it.type = "idiom"
WordKeys(items) ==
    {<<it.english, it.pos>> : it \in {x \in Range(items) : ValidWord(x)}}
IdiomKeys(items) ==
    {it.english : it \in {x \in Range(items) : ValidIdiom(x)}}
StoredWordKeys(d) == {<<r.english, r.pos>> : r \in d.words}
StoredIdiomKeys(d) == {r.english : r \in d.idioms}

\* The number of records a call with this list must insert into database d.
NewKeys(items, d) ==
    Cardinality(WordKeys(items) \ StoredWordKeys(d))
        + Cardinality(IdiomKeys(items) \ StoredIdiomKeys(d))

\* C3: a completed addVocabularyItems call returns the number of distinct
\* uniqueness keys among its valid entries that were not stored before the
\* call, the total count has grown by exactly that number, and every such
\* key is stored afterwards (skipped entries do not stop later ones).
C3_AddedCount ==
    \A p \in Procs :
        DoneAdd(p) =>
            /\ result[p].ret = NewKeys(frame[p].items, result[p].before)
            /\ Count(result[p].after) = Count(result[p].before) + result[p].ret
            /\ WordKeys(frame[p].items) \subseteq StoredWordKeys(result[p].after)
            /\ IdiomKeys(frame[p].items) \subseteq StoredIdiomKeys(result[p].after)

\* "run" as a Verb and "run" as a Noun in one list: both inserted, 2 returned.
C3_Witness ==
    \E p \in Procs :
        /\ DoneAdd(p)
        /\ Len(frame[p].items) = 2
        /\ frame[p].items[1].type = "word" /\ frame[p].items[1].pos = "Verb"
        /\ frame[p].items[2].type = "word" /\ frame[p].items[2].pos = "Noun"
        /\ frame[p].items[1].english = frame[p].items[2].english
        /\ result[p].ret = 2
        /\ Cardinality(result[p].after.words) = 2

\* ---------------------------------------------------------------------- C4
\* A caller has completed addVocabularyItems twice in succession with the
\* identical list.
RepeatedAdd(p) == DoneAdd(p) /\ frame[p].prev.repeat

\* C4 as stated: for any list the first call returns list.length, the second
\* returns 0 and leaves the total count unchanged.
C4_AnyListAddsAll ==
    \A p \in Procs :
        RepeatedAdd(p) =>
            /\ frame[p].prev.ret = Len(frame[p].items)
            /\ result[p].ret = 0
            /\ Count(result[p].after) = Count(result[p].before)

\* C4 amended: the first call returns the number of distinct uniqueness keys
\* among the list's valid entries that were not stored before it, which is
\* list.length exactly when every entry is valid, no two entries share a
\* key and no key was stored; the second call returns 0 and leaves both
\* stores unchanged.
C4_DedupIdempotence ==
    \A p \in Procs :
        RepeatedAdd(p) =>
            /\ frame[p].prev.ret = NewKeys(frame[p].items, frame[p].prev.before)
            /\ frame[p].prev.ret <= Len(frame[p].items)
            /\ result[p].ret = 0
            /\ Count(result[p].after) = Count(result[p].before)
            /\ result[p].after.words = result[p].before.words
            /\ result[p].after.idioms = result[p].before.idioms

\* A list of two fresh, valid, distinct records ingested twice: 2, then 0.
C4_Witness ==
    \E p \in Procs :
        /\ RepeatedAdd(p)
        /\ Len(frame[p].items) = 2
        /\ frame[p].prev.ret = 2
        /\ result[p].ret = 0
        /\ Count(store) = 2

\* ---------------------------------------------------------------------- C5
\* Callers p and q completed addVocabularyItems calls that were in flight at
\* the same time, and the transaction of p ran first.
ConcurrentAdds(p, q) ==
    /\ p # q
    /\ DoneAdd(p) /\ DoneAdd(q)
    /\ frame[p].concurrent /\ frame[q].concurrent
    /\ result[p].after = result[q].before

AddedWordKeys(p) ==
    StoredWordKeys(result[p].after) \ StoredWordKeys(result[p].before)
AddedIdiomKeys(p) ==
    StoredIdiomKeys(result[p].after) \ StoredIdiomKeys(result[p].before)

\* C5: no addVocabularyItems call ever fails on a duplicate; of two calls in
\* flight together one transaction runs entirely before the other, a record
\* key both lists hold is stored once and inserted by exactly one of them
\* (when it was not stored before), and the two returned counts sum to the
\* growth of the store.
C5_ConcurrentAdds ==
    /\ \A p \in Procs :
           (pc[p] = "failed" /\ frame[p].op = "add")
               => result[p].cause # "constraint"
    /\ \A p, q \in Procs :
           (p # q /\ DoneAdd(p) /\ DoneAdd(q)
                  /\ frame[p].concurrent /\ frame[q].concurrent)
               => ConcurrentAdds(p, q) \/ ConcurrentAdds(q, p)
    /\ \A p, q \in Procs :
           ConcurrentAdds(p, q) =>
               /\ Count(result[q].after) - Count(result[p].before)
                      = result[p].ret + result[q].ret
               /\ \A k \in (WordKeys(frame[p].items) \cap WordKeys(frame[q].items))
                               \ StoredWordKeys(result[p].before) :
                      /\ Cardinality({r \in result[q].after.words :
                                         <<r.english, r.pos>> = k}) = 1
                      /\ (k \in AddedWordKeys(p)) # (k \in AddedWordKeys(q))
               /\ \A k \in (IdiomKeys(frame[p].items) \cap IdiomKeys(frame[q].items))
                               \ StoredIdiomKeys(result[p].before) :
                      /\ Cardinality({r \in result[q].after.idioms :
                                         r.english = k}) = 1
                      /\ (k \in AddedIdiomKeys(p)) # (k \in AddedIdiomKeys(q))

\* Two calls in flight together, both offering the same new word; the store
\* holds it once and the returned counts are 1 and 0.
C5_Witness ==
    \E p, q \in Procs :
        /\ ConcurrentAdds(p, q)
        /\ (WordKeys(frame[p].items) \cap WordKeys(frame[q].items))
               \ StoredWordKeys(result[p].before) # {}
        /\ result[p].ret = 1
        /\ result[q].ret = 0
        /\ Cardinality(store.words) = 1

\* ---------------------------------------------------------------------- C6
\* C6: the number getVocabCount returns is the sum of the sizes of the two
\* stores in one committed state of the database between the start of the
\* call and its return.
C6_CountConservation ==
    \A p \in Procs :
        (pc[p] = "done" /\ frame[p].op = "count")
            => result[p].ret \in result[p].seen

\* ---------------------------------------------------------------------- C7
\* C7: however many operations are started, together or one after another,
\* openDB is called at most once, the upgrade callback runs at most once,
\* and every caller was handed the same promise.
C7_OpenMemoized ==
    /\ openCount <= 1
    /\ Len(upgradeLog) <= 1
    /\ \A p, q \in Procs :
           (frame[p].promise # 0 /\ frame[q].promise # 0)
               => frame[p].promise = frame[q].promise

\* Three operations were started, one of them while the open was pending and
\* one after it had settled, and the database was opened once.
C7_Witness ==
    /\ calls = MaxOpenCalls
    /\ \A p \in Procs : pc[p] = "done" /\ frame[p].promise = 1
    /\ \E p \in Procs : frame[p].concurrent
    /\ openCount = 1
    /\ Len(upgradeLog) = 1

\* ---------------------------------------------------------------------- C8
\* C8: an operation started after the fault that failed an earlier open has
\* gone does not fail at the open: the open is run again and succeeds
\* whenever the migration itself can complete.
C8_RetriedOpenSucceeds ==
    \A p \in Procs :
        (pc[p] = "failed" /\ result[p].cause = "open" /\ ~frame[p].faultAtCall)
            => ~Upgrade(store).ok

\* ---------------------------------------------------------------------- C9
\* The opens that found the legacy store and were not hit by a fault.
LegacyOpens ==
    {i \in DOMAIN upgradeLog :
        /\ OLD_VOCAB_STORE_NAME \in upgradeLog[i].from.storeNames
        /\ ~upgradeLog[i].fault}

\* C9: an open that finds the legacy store succeeds, duplicates among the
\* legacy records notwithstanding, removes the legacy store, and leaves the
\* uniqueness key of every legacy record in the store of its kind.
C9_LegacyMigrated ==
    \A i \in LegacyOpens :
        LET e == upgradeLog[i]
        IN  /\ e.ok
            /\ OLD_VOCAB_STORE_NAME \notin e.to.storeNames
            /\ \A r \in Range(e.from.vocabulary) :
                   /\ r.type = "word" =>
                          <<r.english, r.pos>> \in StoredWordKeys(e.to)
                   /\ r.type = "idiom" =>
                          r.english \in StoredIdiomKeys(e.to)

\* --------------------------------------------------------------------- C10
\* C10: an open that finds a database below version 5 runs the steps it
\* needs in ascending order (4 before 5) and ends with exactly the stores
\* words and idioms, each with its unique index, its (level, category)
\* index and its frequencyLevel index.
C10_UpgradeToV5 ==
    \A i \in DOMAIN upgradeLog :
        LET e == upgradeLog[i]
        IN  (e.from.version < DB_VERSION /\ ~e.fault) =>
                /\ e.ok
                /\ e.steps = IF e.from.version < 4 THEN <<4, 5>> ELSE <<5>>
                /\ e.to.version = DB_VERSION
                /\ e.to.storeNames = {WORDS_STORE_NAME, IDIOMS_STORE_NAME}
                /\ e.to.wordsIdx =
                       { Index("english_pos", <<"english", "pos">>, TRUE),
                         Index("level_category", <<"level", "category">>, FALSE),
                         Index("frequencyLevel", <<"frequencyLevel">>, FALSE) }
                /\ e.to.idiomsIdx =
                       { Index("english", <<"english">>, TRUE),
                         Index("level_category", <<"level", "category">>, FALSE),
                         Index("frequencyLevel", <<"frequencyLevel">>, FALSE) }


DoneUpdate(p) == pc[p] = "done" /\ frame[p].op = "update"

\* The records of the collection an update names by its type.
Named(d, u) == IF u.type = "word" THEN d.words ELSE d.idioms

\* The update at position k is the last of the list for its (type, id).
LastFor(updates, k) ==
    \A j \in DOMAIN updates :
        j > k => ~(updates[j].type = updates[k].type
                   /\ updates[j].id = updates[k].id)

\* C12: after updateFrequencyLevels, a record that existed under the id of an
\* update in the collection the update names has the update's frequencyLevel
\* and every other field as before; it is the one record under that id.
C12_FrequencyUpdated ==
    \A p \in Procs :
        DoneUpdate(p) =>
            \A k \in DOMAIN frame[p].updates :
                LET u == frame[p].updates[k]
                IN  \A r \in Named(result[p].before, u) :
                        r.id = u.id /\ LastFor(frame[p].updates, k) =>
                            {a \in Named(result[p].after, u) : a.id = u.id}
                              = {[r EXCEPT !.frequencyLevel = u.frequencyLevel]}

\* A one-update list has changed the tier of a stored record.
C12_Witness ==
    \E p \in Procs :
        /\ DoneUpdate(p)
        /\ Len(frame[p].updates) = 1
        /\ \E r \in Named(result[p].before, frame[p].updates[1]) :
               /\ r.id = frame[p].updates[1].id
               /\ r.frequencyLevel # frame[p].updates[1].frequencyLevel
               /\ r.japanese # NULL
               /\ [r EXCEPT !.frequencyLevel = 3] \in
                      Named(result[p].after, frame[p].updates[1])

Ids(recs) == {r.id : r \in recs}

\* C13: updateFrequencyLevels never fails, creates and deletes no record;
\* an update whose id its collection does not hold changes nothing, also
\* when the other collection holds that id; a record that no (type, id) of
\* the list names is as before.
C13_UpdateFrame ==
    \A p \in Procs :
        /\ frame[p].op = "update" => pc[p] # "failed"
        /\ DoneUpdate(p) =>
            LET b == result[p].before
                a == result[p].after
                named(t, r) == \E k \in DOMAIN frame[p].updates :
                                   /\ frame[p].updates[k].type = t
                                   /\ frame[p].updates[k].id = r.id
            IN  /\ Ids(a.words) = Ids(b.words)
                /\ Ids(a.idioms) = Ids(b.idioms)
                /\ Cardinality(a.words) = Cardinality(b.words)
                /\ Cardinality(a.idioms) = Cardinality(b.idioms)
                /\ a.wordsKeyGen = b.wordsKeyGen
                /\ a.idiomsKeyGen = b.idiomsKeyGen
                /\ \A r \in b.words : ~named("word", r) => r \in a.words
                /\ \A r \in b.idioms : ~named("idiom", r) => r \in a.idioms

\* A mixed list: a word update that applies, and an idiom update whose id
\* only the words collection holds; that word is as before.
C13_Witness ==
    \E p \in Procs :
        /\ DoneUpdate(p)
        /\ \E k, j \in DOMAIN frame[p].updates :
               LET u == frame[p].updates[k]
                   v == frame[p].updates[j]
               IN  /\ u.type = "idiom" /\ v.type = "word" /\ u.id # v.id
                   /\ u.id \notin Ids(result[p].before.idioms)
                   /\ \E r \in result[p].before.words :
                          r.id = u.id /\ r \in result[p].after.words
                   /\ v.id \in Ids(result[p].before.words)
                   /\ result[p].after.words # result[p].before.words


Paged == query.op = "getPaginatedVocabulary"
Stored(d) == d.words \cup d.idioms

\* The search text occurs in t when the case of the letters is ignored.
SameLetter(c, d) == c = d \/ {c, d} \in {{"a", "A"}, {"b", "B"}}
ContainsIgnoringCase(t, s) ==
    \E k \in 0..(Len(t) - Len(s)) :
        \A j \in 1..Len(s) : SameLetter(t[k + j], s[j])

\* The record satisfies every filter that is given.
Satisfies(r, f) ==
    /\ f.level = NULL \/ r.level = f.level
    /\ f.category = NULL \/ r.category = f.category
    /\ f.type = NULL \/ r.type = f.type
    /\ f.frequencyLevel = 0 \/ r.frequencyLevel = f.frequencyLevel
    /\ \/ f.search = <<>>
       \/ ContainsIgnoringCase(r.english, f.search)
       \/ ContainsIgnoringCase(r.japanese, f.search)

Filtered(d, f) == {r \in Stored(d) : Satisfies(r, f)}

\* C14: for the store and the filters of a getPaginatedVocabulary call, a
\* stored record is on some page exactly when it satisfies every filter that
\* is given (level, category, type, tier, search text in english or japanese
\* whatever the case); the page returned holds such records only.
C14_FilterCorrect ==
    Paged =>
        LET a == query.args
            shown == UNION { Range(GetPaginatedVocabulary(
                                       store, p, a.itemsPerPage,
                                       a.filters).items) :
                             p \in 1..(Count(store) + 1) }
        IN  /\ shown = Filtered(store, a.filters)
            /\ Range(query.out.items) \subseteq Filtered(store, a.filters)

\* A search text and a level are given; a record is on the page although
\* its texts hold the search text in another case only, and a stored record
\* is left out.
C14_Witness ==
    /\ Paged
    /\ query.args.filters.search # <<>>
    /\ query.args.filters.level # NULL
    /\ \E r \in Range(query.out.items) :
           /\ ~Includes(r.english, query.args.filters.search)
           /\ ~Includes(r.japanese, query.args.filters.search)
    /\ Filtered(store, query.args.filters) # Stored(store)

\* The pages from page p on, up to the first empty one, one after the other.
RECURSIVE PagesFrom(_, _, _, _)
PagesFrom(d, p, itemsPerPage, filters) ==
    LET items == GetPaginatedVocabulary(d, p, itemsPerPage, filters).items
    IN  IF items = <<>> THEN <<>>
        ELSE items \o PagesFrom(d, p + 1, itemsPerPage, filters)

\* C15: for the store, filters, sort order and page size of a call, the pages
\* 1, 2, 3, ... up to the first empty page hold together exactly the filtered
\* records, each of them once.
C15_PagesComplete ==
    Paged =>
        LET a == query.args
            all == PagesFrom(store, 1, a.itemsPerPage, a.filters)
        IN  /\ Range(all) = Filtered(store, a.filters)
            /\ Len(all) = Cardinality(Filtered(store, a.filters))

\* Three records match and the page size is 2: the call returned page 2,
\* the last one, with one record.
C15_Witness ==
    /\ Paged
    /\ Cardinality(Filtered(store, query.args.filters)) = 3
    /\ query.args.itemsPerPage = 2
    /\ query.args.page = 2
    /\ Len(query.out.items) = 1

\* C16: the total returned is the number of filtered records, the same on
\* every page asked for and on the next, and page p holds min(itemsPerPage, max(0, total - (p - 1) *
\* itemsPerPage)) records; so with 45 matching records and pages of 20 the
\* pages 1 and 2 hold 20 records and page 3 holds 5.
C16_PageSizes ==
    Paged =>
        LET a == query.args
            total == query.out.total
        IN  /\ total = Cardinality(Filtered(store, a.filters))
            /\ \A p \in 1..(MaxPage + 1) :
                   GetPaginatedVocabulary(store, p, a.itemsPerPage,
                                          a.filters).total = total
            /\ Len(query.out.items)
                 = Min(a.itemsPerPage,
                       Max(0, total - (a.page - 1) * a.itemsPerPage))

\* 45 records match, the page size is 20, and page 3 was returned with 5.
C16_Witness ==
    /\ Paged
    /\ query.out.total = 45
    /\ query.args.itemsPerPage = 20
    /\ query.args.page = 3
    /\ Len(query.out.items) = 5
    /\ Len(GetPaginatedVocabulary(store, 1, 20, query.args.filters).items) = 20
    /\ Len(GetPaginatedVocabulary(store, 2, 20, query.args.filters).items) = 20


\* The stored records a getVocabulary call asks for.
Matching(d, a) ==
    { r \in Stored(d) :
        /\ r.level = a.level /\ r.category = a.category
        /\ \/ a.vocabType \in {"word", "all"} /\ r \in d.words
           \/ a.vocabType \in {"idiom", "all"} /\ r \in d.idioms
        /\ a.posFilter = "all" \/ r.pos = a.posFilter
        /\ a.frequencyLevel = 0 \/ r.frequencyLevel = a.frequencyLevel }

NoRepeat(seq) == Cardinality(Range(seq)) = Len(seq)

\* Non-decreasing by english.
Alphabetical(seq) ==
    \A j, k \in DOMAIN seq :
        j < k => LocaleCompare(seq[j].english, seq[k].english) <= 0

\* C17: getVocabulary returns no record twice; every record returned is
\* stored with the level and category asked for, in a collection the type
\* filter selects, and satisfies the part-of-speech and tier filters that
\* are given; the result has min(count, matching records) records; with
\* Alphabetical it is in non-decreasing order of english and no record left
\* out comes before a returned one.
C17_SessionQuery ==
    query.op = "getVocabulary" =>
        LET m == Matching(store, query.args)
        IN  /\ NoRepeat(query.out)
            /\ Range(query.out) \subseteq m
            /\ Len(query.out) = Min(query.count, Cardinality(m))
            /\ query.args.sortOrder = "Alphabetical" =>
                   /\ Alphabetical(query.out)
                   /\ \A r \in m \ Range(query.out), x \in Range(query.out) :
                          LocaleCompare(x.english, r.english) <= 0

\* Three records match, a word and an idiom among them, one of them stored
\* behind a record that sorts after it; the two first by english came back.
C17_Witness ==
    /\ query.op = "getVocabulary"
    /\ query.args.sortOrder = "Alphabetical"
    /\ query.count = 2
    /\ Cardinality(Matching(store, query.args)) = 3
    /\ Len(query.out) = 2
    /\ query.out[1].type = "word" /\ query.out[2].type = "idiom"
    /\ \E r \in store.words : r \notin Range(query.out) /\ r.id = 2

\* C18: getAllVocabularyForLevelAndCategory returns exactly the matching
\* records, each once, and with Alphabetical what getVocabulary returns for
\* count n is the first min(n, size) elements of what it returns for the
\* same store and arguments.
C18_UnboundedQuery ==
    LET a == query.args
        all == GetAllVocabularyForLevelAndCategory(
                   AllVocabularyItems(store, a.level, a.category, a.vocabType,
                                      a.posFilter, a.frequencyLevel),
                   "Alphabetical", <<>>)
    IN  /\ query.op = "getAllVocabularyForLevelAndCategory" =>
               /\ Range(query.out) = Matching(store, a)
               /\ NoRepeat(query.out)
        /\ query.op = "getVocabulary" /\ a.sortOrder = "Alphabetical" =>
               query.out = SubSeq(all, 1, Min(query.count, Len(all)))

\* getVocabulary returned 2 of 3 matching records, a tier filter given.
C18_Witness ==
    /\ query.op = "getVocabulary"
    /\ query.args.sortOrder = "Alphabetical"
    /\ query.args.frequencyLevel # 0
    /\ query.count = 1
    /\ Cardinality(Matching(store, query.args)) = 2
    /\ Cardinality(Matching(store, [query.args EXCEPT !.frequencyLevel = 0])) = 3
    /\ Len(query.out) = 1


RandomOrder ==
    \/ query.op = "getExistingWords"
    \/ /\ query.op \in {"getVocabulary", "getAllVocabularyForLevelAndCategory"}
       /\ query.args.sortOrder = "Random"

\* The array a query has filtered, before it is put in a random order.
Unordered ==
    LET a == query.args
    IN  IF query.op = "getExistingWords"
        THEN ExistingItems(store, a.level, a.category, a.type)
        ELSE IF query.op = "getVocabulary"
        THEN VocabularyItems(store, a.level, a.category, a.vocabType,
                             a.posFilter, a.frequencyLevel)
        ELSE AllVocabularyItems(store, a.level, a.category, a.vocabType,
                                a.posFilter, a.frequencyLevel)

Orderings(seq) ==
    { [k \in DOMAIN seq |-> seq[f[k]]] :
        f \in { g \in [DOMAIN seq -> DOMAIN seq] :
                  \A j, k \in DOMAIN seq : g[j] = g[k] => j = k } }

\* The equally likely outcomes of the random numbers a query draws, and
\* those of them that put the array in the order perm.
Chances ==
    IF query.op = "getExistingWords" THEN Cardinality(Tosses(Len(Unordered)))
    ELSE Cardinality(Draws(Len(Unordered)))
Ways(perm) ==
    IF query.op = "getExistingWords"
    THEN Cardinality({c \in Tosses(Len(Unordered)) :
                        SortTossed(Unordered, c).seq = perm})
    ELSE Cardinality({js \in Draws(Len(Unordered)) :
                        Shuffle(Unordered, js, Len(Unordered)) = perm})

\* C19: every random order a query produces is a permutation of the filtered
\* records, and every permutation is equally likely: it comes from the same
\* number of the equally likely outcomes of the random numbers drawn.
C19_UniformShuffle ==
    RandomOrder =>
        /\ query.ordered \in Orderings(Unordered)
        /\ \A perm \in Orderings(Unordered) :
               Ways(perm) * Cardinality(Orderings(Unordered)) = Chances

\* The stored records a getExistingWords call asks for.
Requested(d, a) ==
    { r \in Stored(d) :
        /\ \/ a.type \in {"word", "all"} /\ r \in d.words
           \/ a.type \in {"idiom", "all"} /\ r \in d.idioms
        /\ a.level = ALL_LEVELS \/ r.level = a.level
        /\ a.category = ALL_CATEGORIES \/ r.category = a.category }

\* C20: getExistingWords returns at most limit strings, one for each of as
\* many distinct stored records of the requested type, level and category
\* ('all', 'All Levels' and 'All Categories' filter nothing); a word gives
\* its english with "-" and its part of speech, an idiom its english; when
\* no more than limit records match, each of them is represented.
C20_ExistingWords ==
    query.op = "getExistingWords" =>
        LET m == Requested(store, query.args)
            sample == SubSeq(query.ordered, 1, Len(query.out))
        IN  /\ Len(query.out) <= query.limit
            /\ Len(query.out) = Min(query.limit, Cardinality(m))
            /\ NoRepeat(sample)
            /\ Range(sample) \subseteq m
            /\ \A k \in DOMAIN query.out :
                   query.out[k] = IF sample[k] \in store.words
                                  THEN sample[k].english
                                           \o <<"-">> \o <<sample[k].pos>>
                                  ELSE sample[k].english
            /\ Cardinality(m) <= query.limit => Range(sample) = m

\* A level is given, words and idioms are asked for, three records match
\* and all are represented, a word among them.
C20_Witness ==
    /\ query.op = "getExistingWords"
    /\ query.args.level # ALL_LEVELS
    /\ query.args.type = "all"
    /\ Cardinality(Requested(store, query.args)) = 3
    /\ Requested(store, query.args) # Stored(store)
    /\ Len(query.out) = 3
    /\ query.out[1] = <<"a", "b", "-", "Verb">>
    /\ <<"A", "b">> \in Range(query.out)

\* C21: when the generation service returns null, returns an empty list or
\* throws, the collection round writes nothing: the store is as it was, no
\* addVocabularyItems call was started and the round has returned 0; and
\* whenever addVocabularyItems is called, its list consists of items the
\* service returned that have every required field and, for a word, a part
\* of speech of the enumeration.
Collected == query # NoQuery /\ query.op = "handleAiCollection"

ServiceFailed ==
    query.answer.kind \in {"null", "throws"} \/ query.answer.items = <<>>

FromService(item) ==
    \E j \in DOMAIN query.answer.items :
        LET sent == query.answer.items[j]
        IN  /\ item.english = sent.english
            /\ item.japanese = sent.japanese
            /\ item.example_en = sent.example_en
            /\ item.example_jp = sent.example_jp

PassedValidation(item) ==
    /\ \A f \in {"english", "japanese", "example_en", "example_jp", "level",
                 "category", "type"} : item[f] # NULL
    /\ item.type = "word" =>
           item.pos \in {"Noun", "Verb", "Adjective", "Adverb"}

C21_FailedRoundWritesNothing ==
    Collected =>
        /\ ServiceFailed =>
               /\ store = query.before
               /\ ~query.called
               /\ calls = 0
               /\ \A p \in Procs : frame[p].op = "none"
               /\ query.settled /\ ~query.threw /\ query.ret = 0
        /\ \A p \in Procs :
               frame[p].op = "add" =>
                   /\ query.called
                   /\ frame[p].items = query.validated
                   /\ \A i \in DOMAIN frame[p].items :
                          /\ FromService(frame[p].items[i])
                          /\ PassedValidation(frame[p].items[i])

C21_Witness ==
    /\ Collected
    /\ query.answer.kind = "throws"
    /\ Count(store) > 0
    /\ query.settled

C21_WitnessIngest ==
    /\ Collected
    /\ query.settled
    /\ query.ret = 1
    /\ Len(query.answer.items) = 2
    /\ Len(query.validated) = 1

\* C22: in every reachable state, the state after a migration of the legacy
\* store included, every record of the words store has a part of speech of
\* the enumeration and every record of the idioms store has none.
C22_PartOfSpeechByKind ==
    /\ \A r \in store.words : r.pos \in {"Noun", "Verb", "Adjective", "Adverb"}
    /\ \A r \in store.idioms : r.pos = NULL

\* C23: addVocabularyItems never inserts a record in which english, type,
\* japanese, example_en, example_jp, level or category is missing; an entry
\* that lacks one of them is skipped and the rest of the list is still
\* processed: after the call every complete, well-kinded entry of the list is
\* stored under its key, and the count returned is the number of new records.
Complete(item) ==
    \A f \in {"english", "type", "japanese", "example_en", "example_jp",
              "level", "category"} : item[f] # NULL

Kinded(item) ==
    \/ item.type = "word" /\ item.pos \in {"Noun", "Verb", "Adjective", "Adverb"}
    \/ item.type = "idiom"

Holds(d, item) ==
    IF item.type = "word"
    THEN \E r \in d.words : r.english = item.english /\ r.pos = item.pos
    ELSE \E r \in d.idioms : r.english = item.english

C23_CompleteRecordsOnly ==
    /\ \A r \in Stored(store) : Complete(r)
    /\ \A p \in Procs :
           DoneAdd(p) =>
               /\ \A i \in DOMAIN frame[p].items :
                      LET item == frame[p].items[i]
                      IN  Complete(item) /\ Kinded(item)
                              => Holds(result[p].after, item)
               /\ result[p].ret
                      = Count(result[p].after) - Count(result[p].before)

C23_Witness ==
    /\ DoneAdd("p1")
    /\ Len(frame["p1"].items) = 2
    /\ frame["p1"].items[1].japanese = NULL
    /\ Complete(frame["p1"].items[2])
    /\ result["p1"].ret = 1

\* C24: every persisted record has its level among the three values of Level
\* and its category among the five values of VocabCategory.
C24_LevelAndCategoryEnumerated ==
    \A r \in Stored(store) :
        r.level \in LEVELS /\ r.category \in VOCAB_CATEGORIES

\* C25: in every reachable state every record of the words store has type
\* word and every record of the idioms store has type idiom, and from one
\* committed state to the next a record keeps its type under its id in its
\* store, whatever operation runs (ingest, migration, frequency update).
C25_KindByStore ==
    /\ \A r \in store.words : r.type = "word"
    /\ \A r \in store.idioms : r.type = "idiom"

C25_KindKept ==
    [][ /\ \A r \in Committed.words, q \in Committed'.words :
               q.id = r.id => q.type = r.type
        /\ \A r \in Committed.idioms, q \in Committed'.idioms :
               q.id = r.id => q.type = r.type ]_vars

C25_Kinds == []C25_KindByStore /\ C25_KindKept

C25_Witness ==
    /\ upgradeLog # <<>>
    /\ upgradeLog[1].from.vocabulary # <<>>
    /\ DoneUpdate("p1")
    /\ \E r \in store.idioms : r.frequencyLevel = 3
    /\ \E r \in store.words : r.english = "go"

\* C26: ids are assigned by the store and never reused.  An id carried by an
\* ingested entry is ignored, ids are unique within a store and never exceed
\* the store's key generator; from one committed state to the next the key
\* generator does not go back, a record that appears has an id above every id
\* assigned before, also after clearDatabase, and a record that stays keeps
\* its content apart from frequencyLevel, so that an id names one record for
\* good and an update built from an earlier scan changes no other record.
IdsUnique(recs, keyGen) ==
    /\ \A r, q \in recs : r.id = q.id => r = q
    /\ \A r \in recs : r.id \in 1..keyGen

IdsFresh(before, beforeGen, after, afterGen) ==
    /\ afterGen >= beforeGen
    /\ \A q \in after :
           \/ q.id > beforeGen
           \/ \E r \in before :
                  r.id = q.id /\ [r EXCEPT !.frequencyLevel = 0]
                                   = [q EXCEPT !.frequencyLevel = 0]

C26_IdsInStore ==
    /\ IdsUnique(store.words, store.wordsKeyGen)
    /\ IdsUnique(store.idioms, store.idiomsKeyGen)

C26_IdsNotReused ==
    [][ /\ IdsFresh(Committed.words, Committed.wordsKeyGen,
                    Committed'.words, Committed'.wordsKeyGen)
        /\ IdsFresh(Committed.idioms, Committed.idiomsKeyGen,
                    Committed'.idioms, Committed'.idiomsKeyGen) ]_vars

C26_Ids == []C26_IdsInStore /\ C26_IdsNotReused

\* After a clear and a new ingest, an update that names id 1 of the words
\* store, an id of before the clear, has changed nothing; the entry ingested
\* with id 1 is stored under another id.
C26_Witness ==
    /\ DoneUpdate("p1")
    /\ \E k \in DOMAIN frame["p1"].updates :
           frame["p1"].updates[k] = [id |-> 1, type |-> "word",
                                     frequencyLevel |-> 3]
    /\ store.words # {}
    /\ \A r \in store.words : r.id > 1 /\ r.frequencyLevel = 0
    /\ \E r \in store.words : r.english = "go"

\* C27: across every step, from one committed state to the next, a record
\* that was present is still present under its id with every field but
\* frequencyLevel unchanged, unless the step is one of clearDatabase clearing
\* its store; its frequencyLevel differs only when the step is the
\* transaction of updateFrequencyLevels.
Clearing(state) == \E p \in Procs : pc[p] = state /\ pc'[p] # state

Updating == \E p \in Procs : pc[p] = "updateTx" /\ pc'[p] = "done"

Kept(before, after, cleared) ==
    \A r \in before :
        \/ cleared /\ after = {}
        \/ \E q \in after :
               /\ q.id = r.id
               /\ [q EXCEPT !.frequencyLevel = 0]
                      = [r EXCEPT !.frequencyLevel = 0]
               /\ q.frequencyLevel # r.frequencyLevel => Updating

C27_RecordsKept ==
    [][ /\ Kept(Committed.words, Committed'.words, Clearing("clearWords"))
        /\ Kept(Committed.idioms, Committed'.idioms, Clearing("clearIdioms"))
      ]_vars

C27_Witness ==
    /\ DoneAdd("p1")
    /\ result["p1"].ret > 0
    /\ result["p1"].before.words # {}
    /\ \E r \in result["p1"].before.words : r.frequencyLevel = 3
    /\ result["p1"].before.words \subseteq store.words

\* C28: in every reachable state each persisted record has frequencyLevel
\* absent or one of 1, 2, 3; a record that addVocabularyItems has just
\* inserted has it absent.
C28_FrequencyLevelRange ==
    \A r \in Stored(store) : r.frequencyLevel \in {0, 1, 2, 3}

\* C29: with the default sort order the pages of getPaginatedVocabulary, one
\* after the other, list the filtered records in the order in which they
\* were inserted: of two records, of whichever store, the one inserted
\* earlier comes earlier.
InsertedAt(r) ==
    CHOOSE k \in DOMAIN frame["p1"].items :
        /\ frame["p1"].items[k].english = r.english
        /\ \A j \in 1..(k - 1) : frame["p1"].items[j].english # r.english

C29_InsertionOrder ==
    Paged /\ DoneAdd("p1") /\ query.args.filters.sortOrder = "default" =>
        LET a == query.args
            all == PagesFrom(store, 1, a.itemsPerPage, a.filters)
        IN  \A i, j \in DOMAIN all :
                i < j => InsertedAt(all[i]) < InsertedAt(all[j])

\* C30: when posFilter is a specific part of speech, getVocabulary and
\* getAllVocabularyForLevelAndCategory return no record of the idioms store,
\* whatever vocabType is; with vocabType idiom the result is empty.
Sessioned ==
    query.op \in {"getVocabulary", "getAllVocabularyForLevelAndCategory"}

C30_NoIdiomUnderPosFilter ==
    Sessioned /\ query.args.posFilter # "all" =>
        /\ \A i \in DOMAIN query.out : query.out[i] \notin store.idioms
        /\ query.args.vocabType = "idiom" => query.out = <<>>

====
